---- MODULE Spec2Model ----
(***************************************************************************)
(* A model of the vipor video-poker library: the three hand evaluators     *)
(* (hand_eval.py, hand_eval_deuces.py, hand_eval_deuces_bonus.py), the     *)
(* rule strategies (strategy.py, strategy_rules_riff.py,                   *)
(* strategy_rules_j_riff.py), the Monte-Carlo hold-mask search             *)
(* (best_hold_mc.py), the frozen-hand reporter and its card parser         *)
(* (frozen.py), the parser of holding_strategy_check.py, the deck          *)
(* (deck.py), the Hot Roll state (hot_roll.py) and the simulation loop     *)
(* (sim.py).                                                               *)
(*                                                                         *)
(* A card is a record [rank, suit]; a hand is a sequence of cards, so      *)
(* Python position i is TLA+ position i + 1.  A category is its Python     *)
(* string.  A raised ValueError is the value "ValueError".                 *)
(***************************************************************************)
EXTENDS Integers, Sequences, FiniteSets, TLC

(***************************************************************************)
(* cards.py                                                                *)
(***************************************************************************)
SUITS == <<"S", "H", "D", "C">>

RANKS == 2..14

Card(rank, suit) == [rank |-> rank, suit |-> suit]

(***************************************************************************)
(* Python built-ins used by the evaluators.                                *)
(***************************************************************************)
ValueError == "ValueError"

RECURSIVE insert_sorted(_, _)
insert_sorted(x, s) ==
    IF s = <<>> THEN <<x>>
    ELSE IF x <= Head(s) THEN <<x>> \o s
    ELSE <<Head(s)>> \o insert_sorted(x, Tail(s))

\* The list left as it is: a sort that was forgotten.
sorted_forgotten(xs) == xs

\* sorted(xs) for a sequence of integers.
RECURSIVE sorted(_)
sorted(xs) == IF xs = <<>> THEN <<>> ELSE insert_sorted(Head(xs), sorted(Tail(xs)))

\* sorted(xs, reverse=True)
sorted_reverse(xs) ==
    LET a == sorted(xs) IN [i \in 1..Len(a) |-> a[Len(a) + 1 - i]]

\* collections.Counter(ranks): rank -> number of occurrences, for the ranks present.
Counter(ranks) ==
    [r \in {ranks[i] : i \in 1..Len(ranks)} |->
        Cardinality({i \in 1..Len(ranks) : ranks[i] = r})]

\* sorted(S) for a set of integers.
RECURSIVE sorted_set(_)
sorted_set(S) ==
    IF S = {} THEN <<>>
    ELSE LET m == CHOOSE x \in S : \A y \in S : x <= y
         IN <<m>> \o sorted_set(S \ {m})

\* The keys of Counter(ranks) in dict order: the order of first occurrence.
RECURSIVE Counter_keys(_)
Counter_keys(ranks) ==
    IF ranks = <<>> THEN <<>>
    ELSE LET front == SubSeq(ranks, 1, Len(ranks) - 1)
             last  == ranks[Len(ranks)]
         IN IF \E i \in 1..Len(front) : front[i] = last
            THEN Counter_keys(front)
            ELSE Counter_keys(front) \o <<last>>

\* The values of a dict whose keys, in dict order, are keys.
dict_values(d, keys) == [i \in 1..Len(keys) |-> d[keys[i]]]

\* d.get(k, 0)
dict_get(d, k) == IF k \in DOMAIN d THEN d[k] ELSE 0

(***************************************************************************)
(* hand_eval.py: the standard (jacks-or-better family) evaluator.          *)
(***************************************************************************)
_is_straight(unique_sorted) ==
    IF Len(unique_sorted) # 5 THEN FALSE
    ELSE IF unique_sorted = <<2, 3, 4, 5, 14>> THEN TRUE
    ELSE LET start == unique_sorted[1]
         IN unique_sorted = [i \in 1..5 |-> start + i - 1]

four_kind_category_no_ace_kicker(quad_rank, kicker_rank) ==
    IF quad_rank = 14
    THEN (IF kicker_rank \in {2, 3, 4} THEN "four_aces_234" ELSE "four_aces")
    ELSE IF quad_rank \in {2, 3, 4}
    THEN (IF kicker_rank \in {2, 3, 4} THEN "four_low_ace" ELSE "four_234")
    ELSE "four_of_a_kind"

four_kind_category(quad_rank, kicker_rank) ==
    IF quad_rank = 14
    THEN (IF kicker_rank \in {2, 3, 4} THEN "four_aces_234" ELSE "four_aces")
    ELSE IF quad_rank \in {2, 3, 4}
    THEN (IF kicker_rank \in {14, 2, 3, 4} THEN "four_low_ace" ELSE "four_234")
    ELSE "four_of_a_kind"

one_pair_category(pair_rank) ==
    IF pair_rank >= 11 THEN "jacks_or_better" ELSE "nothing"

evaluate_hand(cards) ==
    IF Len(cards) # 5 THEN ValueError
    ELSE
    LET ranks    == sorted([i \in 1..Len(cards) |-> cards[i].rank])
        counts   == Counter(ranks)
        keys     == Counter_keys(ranks)
        shape    == sorted_reverse(dict_values(counts, keys))
        unique   == sorted(keys)
        flush    == Cardinality({cards[i].suit : i \in 1..Len(cards)}) = 1
        straight == _is_straight(unique)
    IN  IF flush /\ straight
        THEN (IF {unique[i] : i \in 1..Len(unique)} = {10, 11, 12, 13, 14}
              THEN "royal_flush" ELSE "straight_flush")
        ELSE IF shape = <<4, 1>>
        THEN four_kind_category(CHOOSE r \in DOMAIN counts : counts[r] = 4,
                                CHOOSE r \in DOMAIN counts : counts[r] = 1)
        ELSE IF shape = <<3, 2>> THEN "full_house"
        ELSE IF flush THEN "flush"
        ELSE IF straight THEN "straight"
        ELSE IF shape = <<3, 1, 1>> THEN "three_of_a_kind"
        ELSE IF shape = <<2, 2, 1>> THEN "two_pair"
        ELSE IF shape = <<2, 1, 1, 1>>
        THEN one_pair_category(
                 CHOOSE r \in DOMAIN counts :
                     /\ counts[r] = 2
                     /\ \A q \in DOMAIN counts : counts[q] = 2 => q <= r)
        ELSE "nothing"

(***************************************************************************)
(* hand_eval_deuces.py: the Deuces Wild evaluator.                         *)
(***************************************************************************)
ROYAL_SEQ == <<10, 11, 12, 13, 14>>

STRAIGHT_SEQS ==
    << <<14, 2, 3, 4, 5>>,
       <<2, 3, 4, 5, 6>>,
       <<3, 4, 5, 6, 7>>,
       <<4, 5, 6, 7, 8>>,
       <<5, 6, 7, 8, 9>>,
       <<6, 7, 8, 9, 10>>,
       <<7, 8, 9, 10, 11>>,
       <<8, 9, 10, 11, 12>>,
       <<9, 10, 11, 12, 13>>,
       <<10, 11, 12, 13, 14>> >>

IsDeuce(c) == c.rank = 2

IsNatural(c) == c.rank # 2

_count_deuces(cards) == Cardinality({i \in 1..Len(cards) : IsDeuce(cards[i])})

_naturals(cards) == SelectSeq(cards, IsNatural)

_rank_counts(naturals) ==
    [r \in {naturals[i].rank : i \in 1..Len(naturals)} |->
        Cardinality({i \in 1..Len(naturals) : naturals[i].rank = r})]

_all_naturals_same_suit(naturals) ==
    IF naturals = <<>> THEN TRUE
    ELSE LET s == naturals[1].suit
         IN \A i \in 1..Len(naturals) : naturals[i].suit = s

\* Counts the natural cards of the sequence's ranks, not the ranks present.
_can_make_sequence_counting_cards(naturals, wilds, seq) ==
    LET seq_ranks == {seq[i] : i \in 1..Len(seq)}
        present == Cardinality({i \in 1..Len(naturals) : naturals[i].rank \in seq_ranks})
        missing == 5 - present
    IN  missing <= wilds

_can_make_sequence(naturals, wilds, seq) ==
    LET natural_ranks == {naturals[i].rank : i \in 1..Len(naturals)}
        present == Cardinality({i \in 1..Len(seq) : seq[i] \in natural_ranks})
        missing == 5 - present
    IN  missing <= wilds

_can_make_any_straight(naturals, wilds) ==
    \E n \in 1..Len(STRAIGHT_SEQS) : _can_make_sequence(naturals, wilds, STRAIGHT_SEQS[n])

_can_make_royal(naturals, wilds) == _can_make_sequence(naturals, wilds, ROYAL_SEQ)

_can_make_five_kind(rank_counts, wilds) ==
    IF wilds = 5 THEN TRUE
    ELSE \E r \in DOMAIN rank_counts : rank_counts[r] + wilds >= 5

_can_make_n_of_kind(rank_counts, wilds, n) ==
    \/ \E r \in DOMAIN rank_counts : rank_counts[r] + wilds >= n
    \/ wilds >= n

max0(x) == IF x > 0 THEN x ELSE 0

\* The pair is paid from all the wilds, those the triple took included.
_can_make_full_house_wilds_twice(rank_counts, wilds) ==
    LET candidates == DOMAIN rank_counts \cup {3, 4, 5, 6, 7, 8, 9, 10, 11, 12, 13, 14}
    IN  \E r3 \in candidates :
            /\ ~(max0(3 - dict_get(rank_counts, r3)) > wilds)
            /\ \E r2 \in candidates :
                   /\ r2 # r3
                   /\ max0(2 - dict_get(rank_counts, r2)) <= wilds

_can_make_full_house(rank_counts, wilds) ==
    LET candidates == DOMAIN rank_counts \cup {3, 4, 5, 6, 7, 8, 9, 10, 11, 12, 13, 14}
    IN  \E r3 \in candidates :
            LET c3    == dict_get(rank_counts, r3)
                need3 == max0(3 - c3)
                w2    == wilds - need3
            IN  /\ ~(need3 > wilds)
                /\ \E r2 \in candidates :
                       /\ r2 # r3
                       /\ max0(2 - dict_get(rank_counts, r2)) <= w2

evaluate_deuces(cards) ==
    IF Len(cards) # 5 THEN ValueError
    ELSE
    LET wilds    == _count_deuces(cards)
        naturals == _naturals(cards)
        rc       == _rank_counts(naturals)
    IN  IF /\ wilds = 0
           /\ _all_naturals_same_suit(naturals)
           /\ sorted_set({naturals[i].rank : i \in 1..Len(naturals)}) = ROYAL_SEQ
        THEN "natural_royal_flush"
        ELSE IF wilds = 4 THEN "four_deuces"
        ELSE IF wilds > 0 /\ _all_naturals_same_suit(naturals) /\ _can_make_royal(naturals, wilds)
        THEN "wild_royal_flush"
        ELSE IF wilds > 0 /\ _can_make_five_kind(rc, wilds) THEN "five_of_a_kind"
        ELSE IF _all_naturals_same_suit(naturals) /\ _can_make_any_straight(naturals, wilds)
        THEN "straight_flush"
        ELSE IF _can_make_n_of_kind(rc, wilds, 4) THEN "four_of_a_kind"
        ELSE IF _can_make_full_house(rc, wilds) THEN "full_house"
        ELSE IF _all_naturals_same_suit(naturals) THEN "flush"
        ELSE IF _can_make_any_straight(naturals, wilds) THEN "straight"
        ELSE IF _can_make_n_of_kind(rc, wilds, 3) THEN "three_of_a_kind"
        ELSE "nothing"

(***************************************************************************)
(* hand_eval_deuces_bonus.py: the Deuces Wild Bonus evaluator.  The module  *)
(* carries its own copies of the helpers; they are modelled separately.    *)
(***************************************************************************)
bonus_count_deuces(cards) == Cardinality({i \in 1..Len(cards) : cards[i].rank = 2})

bonus_naturals(cards) == SelectSeq(cards, IsNatural)

bonus_rank_counts(naturals) ==
    [r \in {naturals[i].rank : i \in 1..Len(naturals)} |->
        Cardinality({i \in 1..Len(naturals) : naturals[i].rank = r})]

bonus_all_naturals_same_suit(naturals) ==
    IF naturals = <<>> THEN TRUE
    ELSE LET s == naturals[1].suit
         IN \A i \in 1..Len(naturals) : naturals[i].suit = s

bonus_can_make_sequence(naturals, wilds, seq) ==
    LET natural_ranks == {naturals[i].rank : i \in 1..Len(naturals)}
        present == Cardinality({i \in 1..Len(seq) : seq[i] \in natural_ranks})
        missing == 5 - present
    IN  missing <= wilds

bonus_can_make_any_straight(naturals, wilds) ==
    \E n \in 1..Len(STRAIGHT_SEQS) :
        bonus_can_make_sequence(naturals, wilds, STRAIGHT_SEQS[n])

bonus_can_make_royal(naturals, wilds) == bonus_can_make_sequence(naturals, wilds, ROYAL_SEQ)

bonus_can_make_n_of_kind_strict(rc, wilds, n) ==
    \/ \E r \in DOMAIN rc : rc[r] + wilds > n
    \/ wilds >= n

bonus_can_make_n_of_kind(rc, wilds, n) ==
    \/ \E r \in DOMAIN rc : rc[r] + wilds >= n
    \/ wilds >= n

bonus_can_make_full_house(rc, wilds) ==
    LET candidates == DOMAIN rc \cup {3, 4, 5, 6, 7, 8, 9, 10, 11, 12, 13, 14}
    IN  \E r3 \in candidates :
            LET c3     == dict_get(rc, r3)
                need3  == max0(3 - c3)
                w_left == wilds - need3
            IN  /\ ~(need3 > wilds)
                /\ \E r2 \in candidates :
                       /\ r2 # r3
                       /\ max0(2 - dict_get(rc, r2)) <= w_left

_is_natural_royal_flush(naturals, wilds) ==
    IF wilds # 0 THEN FALSE
    ELSE IF Len(naturals) # 5 THEN FALSE
    ELSE IF ~bonus_all_naturals_same_suit(naturals) THEN FALSE
    ELSE sorted_set({naturals[i].rank : i \in 1..Len(naturals)}) = ROYAL_SEQ

\* None where a category string is expected, and None where a card is expected.
None == "None"

NoCard == [rank |-> 0, suit |-> "None"]

\* next((c for c in cards if c.rank != 2), None): the first natural card.
first_natural(cards) ==
    IF \E i \in 1..Len(cards) : cards[i].rank # 2
    THEN cards[CHOOSE i \in 1..Len(cards) :
                   /\ cards[i].rank # 2
                   /\ \A j \in 1..(i - 1) : cards[j].rank = 2]
    ELSE NoCard

_four_deuces_category(cards, wilds) ==
    IF wilds # 4 THEN None
    ELSE LET natural == first_natural(cards)
         IN IF natural # NoCard /\ natural.rank = 14
            THEN "four_deuces_with_ace"
            ELSE "four_deuces"

\* range(6, 13) in place of range(6, 14): the kings are left out.
_five_kind_category_no_kings(rc, wilds) ==
    IF wilds <= 0 THEN None
    ELSE IF dict_get(rc, 14) + wilds >= 5 THEN "five_aces"
    ELSE IF \E r \in {3, 4, 5} : dict_get(rc, r) + wilds >= 5 THEN "five_345"
    ELSE IF \E r \in 6..12 : dict_get(rc, r) + wilds >= 5 THEN "five_6_to_k"
    ELSE IF DOMAIN rc = {} /\ wilds >= 5 THEN "five_aces"
    ELSE None

_five_kind_category(rc, wilds) ==
    IF wilds <= 0 THEN None
    ELSE IF dict_get(rc, 14) + wilds >= 5 THEN "five_aces"
    ELSE IF \E r \in {3, 4, 5} : dict_get(rc, r) + wilds >= 5 THEN "five_345"
    ELSE IF \E r \in 6..13 : dict_get(rc, r) + wilds >= 5 THEN "five_6_to_k"
    ELSE IF DOMAIN rc = {} /\ wilds >= 5 THEN "five_aces"
    ELSE None

\* The body of evaluate_deuces_bonus after its length check.
deuces_bonus_category(cards) ==
    LET wilds    == bonus_count_deuces(cards)
        naturals == bonus_naturals(cards)
        rc       == bonus_rank_counts(naturals)
        four_deuces_cat == _four_deuces_category(cards, wilds)
        five_cat == _five_kind_category(rc, wilds)
    IN  IF _is_natural_royal_flush(naturals, wilds) THEN "natural_royal_flush"
        ELSE IF four_deuces_cat # None THEN four_deuces_cat
        ELSE IF /\ wilds > 0
                /\ bonus_all_naturals_same_suit(naturals)
                /\ bonus_can_make_royal(naturals, wilds)
        THEN "wild_royal_flush"
        ELSE IF five_cat # None THEN five_cat
        ELSE IF /\ bonus_all_naturals_same_suit(naturals)
                /\ bonus_can_make_any_straight(naturals, wilds)
        THEN "straight_flush"
        ELSE IF bonus_can_make_n_of_kind(rc, wilds, 4) THEN "four_of_a_kind"
        ELSE IF bonus_can_make_full_house(rc, wilds) THEN "full_house"
        ELSE IF bonus_all_naturals_same_suit(naturals) THEN "flush"
        ELSE IF bonus_can_make_any_straight(naturals, wilds) THEN "straight"
        ELSE IF bonus_can_make_n_of_kind(rc, wilds, 3) THEN "three_of_a_kind"
        ELSE "nothing"

evaluate_deuces_bonus_short_only(cards) ==
    IF Len(cards) < 5 THEN ValueError ELSE deuces_bonus_category(cards)

evaluate_deuces_bonus(cards) ==
    IF Len(cards) # 5 THEN ValueError ELSE deuces_bonus_category(cards)

\* The evaluator selected by ruleset name (cli.py: job, deuces, deuces_bonus).
evaluator(name, cards) ==
    IF name = "job" THEN evaluate_hand(cards)
    ELSE IF name = "deuces" THEN evaluate_deuces(cards)
    ELSE evaluate_deuces_bonus(cards)

(***************************************************************************)
(* strategy_helpers.py and strategy_rules_j_riff.py: the rule-driven       *)
(* strategy for Deuces Wild Bonus.  A HoldDecision is its mask.  Lists of  *)
(* indices hold Python's positions, 0..4.                                  *)
(***************************************************************************)
ROYAL_RANKS == {10, 11, 12, 13, 14}

DEUCE_RANK == 2

ACE_RANK == 14

ROYAL_SET == {10, 11, 12, 13, 14}

MADE_HAND_CATEGORIES ==
    {"royal_flush", "natural_royal_flush", "wild_royal_flush", "straight_flush",
     "five_of_a_kind", "five_aces", "five_345", "five_6_to_k", "four_of_a_kind",
     "four_deuces", "four_deuces_with_ace", "full_house", "flush", "straight"}

\* mask |= 1 << i, for the index i when it is among indices
bit_of(indices, i) == IF \E k \in 1..Len(indices) : indices[k] = i THEN 2 ^ i ELSE 0

mask_from_indices(indices) ==
    IF \E k \in 1..Len(indices) : indices[k] < 0 \/ indices[k] > 4
    THEN ValueError
    ELSE bit_of(indices, 0) + bit_of(indices, 1) + bit_of(indices, 2)
         + bit_of(indices, 3) + bit_of(indices, 4)

\* [i for i, c in enumerate(cards) if pred(c)]
_idxs(cards, pred(_)) ==
    SelectSeq([i \in 1..Len(cards) |-> i - 1], LAMBDA i : pred(cards[i + 1]))

is_deuce_rank(c) == c.rank = DEUCE_RANK

\* A kicker test that takes the king for an ace as well.
is_ace_or_king_rank(c) == c.rank >= 13

is_ace_rank(c) == c.rank = ACE_RANK

\* (c.rank in ROYAL_RANKS) and (c.rank != DEUCE_RANK)
is_royal_rank(c) == c.rank \in ROYAL_RANKS /\ c.rank # DEUCE_RANK

\* max(keys, key=...): the first of the keys, in their order, whose size is greatest.
first_max(keys, size) ==
    keys[CHOOSE k \in 1..Len(keys) :
            /\ \A j \in 1..Len(keys) : size[keys[j]] <= size[keys[k]]
            /\ \A j \in 1..(k - 1) : size[keys[j]] < size[keys[k]]]

\* The suits, and the ranks, of the cards at the indices idx.
suits_at(cards, idx) == [k \in 1..Len(idx) |-> cards[idx[k] + 1].suit]

ranks_at(cards, idx) == [k \in 1..Len(idx) |-> cards[idx[k] + 1].rank]

\* d.setdefault(cards[i].suit, []).append(i) for i in idx: the list of one suit.
idx_of_suit(cards, idx, suit) == SelectSeq(idx, LAMBDA i : cards[i + 1].suit = suit)

\* d.setdefault(c.rank, []).append(i): the list of one rank.
idx_of_rank(cards, idx, rank) == SelectSeq(idx, LAMBDA i : cards[i + 1].rank = rank)

\* royals_by_suit[max(royals_by_suit, key=lambda s: len(royals_by_suit[s]))]
suited_royals(cards, royal_idx) ==
    LET keys      == Counter_keys(suits_at(cards, royal_idx))
        sizes     == [s \in {keys[k] : k \in 1..Len(keys)} |->
                         Len(idx_of_suit(cards, royal_idx, s))]
        best_suit == first_max(keys, sizes)
    IN  idx_of_suit(cards, royal_idx, best_suit)

\* The hold that keeps the suited royal cards and lets the deuces go.
two_deuce_hold_royals_only(cards) ==
    LET deuce_idx == _idxs(cards, is_deuce_rank)
        royal_idx == _idxs(cards, is_royal_rank)
    IN  IF Len(royal_idx) >= 3 /\ Len(suited_royals(cards, royal_idx)) >= 2
        THEN mask_from_indices(suited_royals(cards, royal_idx))
        ELSE mask_from_indices(deuce_idx)

\* The hold with two royal-rank naturals enough to look for a suited pair.
two_deuce_hold_from_two_royals(cards) ==
    LET deuce_idx == _idxs(cards, is_deuce_rank)
        royal_idx == _idxs(cards, is_royal_rank)
    IN  IF Len(royal_idx) >= 2 /\ Len(suited_royals(cards, royal_idx)) >= 2
        THEN mask_from_indices(deuce_idx \o suited_royals(cards, royal_idx))
        ELSE mask_from_indices(deuce_idx)

\* if d == 2: ...
two_deuce_hold(cards) ==
    LET deuce_idx == _idxs(cards, is_deuce_rank)
        royal_idx == _idxs(cards, is_royal_rank)
    IN  IF Len(royal_idx) >= 3 /\ Len(suited_royals(cards, royal_idx)) >= 2
        THEN mask_from_indices(deuce_idx \o suited_royals(cards, royal_idx))
        ELSE mask_from_indices(deuce_idx)

\* [idxs for idxs in counts.values() if len(idxs) == 2], counts made of the cards at idx
pair_idxs(cards, idx) ==
    LET keys == Counter_keys(ranks_at(cards, idx))
    IN  SelectSeq([k \in 1..Len(keys) |-> idx_of_rank(cards, idx, keys[k])],
                  LAMBDA g : Len(g) = 2)

\* The hold with one deuce that keeps a straight and a flush as made hands.
one_deuce_hold_keeping_straights(cards, cat) ==
    LET deuce_idx == _idxs(cards, is_deuce_rank)
        pairs     == pair_idxs(cards, _idxs(cards, LAMBDA c : ~is_deuce_rank(c)))
    IN  IF cat # None /\ cat \in MADE_HAND_CATEGORIES THEN 31
        ELSE IF Len(pairs) = 1 THEN mask_from_indices(deuce_idx \o pairs[1])
        ELSE mask_from_indices(deuce_idx)

\* if d == 1: ...  (cat.lower() is cat: the evaluators' categories are lower-case)
one_deuce_hold(cards, cat) ==
    LET deuce_idx == _idxs(cards, is_deuce_rank)
        pairs     == pair_idxs(cards, _idxs(cards, LAMBDA c : ~is_deuce_rank(c)))
    IN  IF cat # None /\ cat = "straight" THEN mask_from_indices(deuce_idx)
        ELSE IF cat # None /\ cat = "flush" THEN mask_from_indices(deuce_idx)
        ELSE IF cat # None /\ cat \in MADE_HAND_CATEGORIES THEN 31
        ELSE IF Len(pairs) = 1 THEN mask_from_indices(deuce_idx \o pairs[1])
        ELSE mask_from_indices(deuce_idx)

\* The rank kept among rs: the ace, else the lowest of 3..5, else the lowest of 6..13;
\* 0 when rs has none of them.
keep_rank(rs) ==
    LET low_35 == {r \in rs : 3 <= r /\ r <= 5}
        mid_6k == {r \in rs : 6 <= r /\ r <= 13}
    IN  IF ACE_RANK \in rs THEN ACE_RANK
        ELSE IF low_35 # {} THEN CHOOSE r \in low_35 : \A q \in low_35 : r <= q
        ELSE IF mid_6k # {} THEN CHOOSE r \in mid_6k : \A q \in mid_6k : r <= q
        ELSE 0

\* max(by_suit.values(), key=len) over the suits C, D, H, S in this order.
best_royal_suit_idx(cards) ==
    LET royal_idx == _idxs(cards, LAMBDA c : c.rank \in ROYAL_SET)
        keys      == <<"C", "D", "H", "S">>
        sizes     == [s \in {"C", "D", "H", "S"} |-> Len(idx_of_suit(cards, royal_idx, s))]
    IN  idx_of_suit(cards, royal_idx, first_max(keys, sizes))

\* The rest of the function, reached without a deuce.
other_hold(cards, cat, d) ==
    LET deuce_idx  == _idxs(cards, is_deuce_rank)
        royal_idx  == _idxs(cards, is_royal_rank)
        all_idx    == [i \in 1..Len(cards) |-> i - 1]
        rank_set   == {cards[i].rank : i \in 1..Len(cards)}
        count(r)   == Len(idx_of_rank(cards, all_idx, r))
        trip_ranks == {r \in rank_set : count(r) = 3}
        pair_ranks == {r \in rank_set : count(r) = 2}
    IN  IF Len(royal_idx) >= 3 /\ Len(suited_royals(cards, royal_idx)) >= 2
        THEN mask_from_indices(deuce_idx \o suited_royals(cards, royal_idx))
        ELSE IF cat # None /\ cat \in MADE_HAND_CATEGORIES THEN 31
        ELSE IF trip_ranks # {} /\ keep_rank(trip_ranks) # 0
        THEN mask_from_indices(idx_of_rank(cards, all_idx, keep_rank(trip_ranks)))
        ELSE IF d = 0 /\ Len(best_royal_suit_idx(cards)) >= 3
        THEN mask_from_indices(best_royal_suit_idx(cards))
        ELSE IF pair_ranks = {} THEN 0
        ELSE IF keep_rank(pair_ranks) # 0
        THEN mask_from_indices(idx_of_rank(cards, all_idx, keep_rank(pair_ranks)))
        ELSE mask_from_indices(idx_of_rank(cards, all_idx,
                 CHOOSE r \in pair_ranks : \A q \in pair_ranks : r <= q))

\* _choose_evaluator() is evaluate_deuces_bonus; an exception of it leaves cat = None.
j_riff_category(cards) ==
    LET r == evaluate_deuces_bonus(cards) IN IF r = ValueError THEN None ELSE r

j_riff_strategy_deuces_wild_bonus(cards) ==
    LET deuce_idx == _idxs(cards, is_deuce_rank)
        d         == Len(deuce_idx)
        cat       == j_riff_category(cards)
    IN  IF d = 4 THEN mask_from_indices(deuce_idx \o _idxs(cards, is_ace_rank))
        ELSE IF d = 3 THEN mask_from_indices(deuce_idx)
        ELSE IF d = 2 THEN two_deuce_hold(cards)
        ELSE IF d = 1 THEN one_deuce_hold(cards, cat)
        ELSE other_hold(cards, cat, d)

\* An integer of any size, as the set of the positions of its one bits.
Bits(n) == {i \in 0..30 : (n \div 2^i) % 2 = 1}

\* a ^ b
xor(a, b) == (a \ b) \cup (b \ a)

\* a & 0xFFFFFFFF
and_0xFFFFFFFF(a) == a \cap 0..31

(***************************************************************************)
(* Numbers.  An EV is total_pay / trials, a Python float; it is modelled   *)
(* as the exact fraction [num, den] (den > 0), compared by cross           *)
(* multiplication.  A division by zero is the value with den = 0.          *)
(***************************************************************************)
Frac(n, d) == [num |-> n, den |-> d]

Zero == Frac(0, 1)

ZeroDivisionError == Frac(0, 0)

FracGt(a, b) == a.num * b.den > b.num * a.den

FracEq(a, b) == a.num * b.den = b.num * a.den

FracAdd(a, b) == Frac(a.num * b.den + b.num * a.den, a.den * b.den)

FracMul(a, b) == Frac(a.num * b.num, a.den * b.den)

(***************************************************************************)
(* paytable.py                                                             *)
(***************************************************************************)
\* The payouts of the paytable in use: royal and straight flushes pay.
payouts ==
    [c \in {"royal_flush", "natural_royal_flush", "straight_flush", "nothing"} |->
        IF c = "nothing" THEN 0 ELSE IF c = "straight_flush" THEN 50 ELSE 250]

payout_for(category) == IF category \in DOMAIN payouts THEN payouts[category] ELSE 0

(***************************************************************************)
(* hot_roll.py                                                             *)
(***************************************************************************)
\* HotRollConfig.p_per_hand, the default 1/6.
p_per_hand == Frac(1, 6)

\* 1.0 - 6.0 * p_roll
expected_multiplier_less(p_roll) == Frac(p_roll.den - 6 * p_roll.num, p_roll.den)

\* 1.0 + 6.0 * p_roll
expected_multiplier_2d6(p_roll) == Frac(p_roll.den + 6 * p_roll.num, p_roll.den)

(***************************************************************************)
(* best_hold_mc.py and frozen.py.  The searches draw from the cards of     *)
(* the ranks McRanks in the suits McSuits in place of the 52 cards, so     *)
(* that a hand leaves McDeckSize - 5 cards where the code expects 47.      *)
(***************************************************************************)
MaxTrials == 1

McSuits == {"C", "D"}

McRanks == 10..14

InMcDeck(c) == c.rank \in McRanks /\ c.suit \in McSuits

McDeckSize == Cardinality(McRanks) * Cardinality(McSuits)

\* for suit in suit_order: for rank in range(2, 15)
DeckBy(suit_order) ==
    SelectSeq([i \in 1..(Len(suit_order) * 13) |->
                  Card(2 + ((i - 1) % 13), suit_order[((i - 1) \div 13) + 1])],
              InMcDeck)

\* [Card(rank=r, suit=s) for s in SUITS for r in RANKS]
FULL_DECK == DeckBy(SUITS)

\* The deck _fresh_deck_excluding walks through.
FRESH_DECK == DeckBy(<<"C", "D", "H", "S">>)

CardsOf(h) == {h[i] : i \in 1..Len(h)}

RECURSIVE without(_, _)
without(deck, excluded) ==
    IF deck = <<>> THEN <<>>
    ELSE IF Head(deck) \in excluded THEN without(Tail(deck), excluded)
    ELSE <<Head(deck)>> \o without(Tail(deck), excluded)

\* _fresh_deck_excluding raises ValueError when the cards left are not the deck less five.
fresh_deck_raises(hand) == Len(without(FRESH_DECK, CardsOf(hand))) # McDeckSize - 5

_fresh_deck_excluding(hand) == without(FRESH_DECK, CardsOf(hand))

\* rng.sample(population, k): every sequence of k different members.
RECURSIVE sample(_, _)
sample(population, k) ==
    IF k = 0 THEN {<<>>}
    ELSE UNION {{<<x>> \o rest : rest \in sample(population \ {x}, k - 1)} :
                   x \in population}

\* A second index that is not moved past the first.
second_index_unshifted(i, j) == j

\* j = rng.randrange(n - 1); if j >= i: j += 1
second_index(i, j) == IF j >= i THEN j + 1 ELSE j

\* _draw_k: the tuples the generator can return (indices are Python's, 0-based).
_draw_k(remaining, k) ==
    LET n == Len(remaining)
    IN  IF k <= 0 THEN {<<>>}
        ELSE IF k = 1 THEN {<<remaining[i + 1]>> : i \in 0..(n - 1)}
        ELSE IF k = 2
        THEN {<<remaining[i + 1], remaining[second_index(i, j) + 1]>> :
                 i \in 0..(n - 1), j \in 0..(n - 2)}
        ELSE IF k = 3
        THEN UNION {{<<remaining[i + 1], remaining[second_index(i, j) + 1],
                       remaining[kidx + 1]>> :
                        kidx \in (0..(n - 1)) \ {i, second_index(i, j)}} :
                    i \in 0..(n - 1), j \in 0..(n - 2)}
        ELSE sample(CardsOf(remaining), k)

\* if draw_n: one call of _draw_k, which is counted in rng_draws.
consumes_always(draw_n) == 1

consumes(draw_n) == IF draw_n # 0 THEN 1 ELSE 0

\* draw_pos: the positions (0-based) whose mask bit is not set.
bit_set(m, i) == (m \div (2 ^ i)) % 2 = 1

RECURSIVE positions_from(_, _)
positions_from(m, i) ==
    IF i >= 5 THEN <<>>
    ELSE IF ~bit_set(m, i) THEN <<i>> \o positions_from(m, i + 1)
    ELSE positions_from(m, i + 1)

draw_pos(m) == positions_from(m, 0)

\* final[pos] = drawn[di] for every di, pos in enumerate(draw_pos)
fill(hand, positions, drawn) ==
    [i \in 1..Len(hand) |->
        IF \E di \in 1..Len(positions) : positions[di] = i - 1
        THEN drawn[CHOOSE di \in 1..Len(positions) : positions[di] = i - 1]
        ELSE hand[i]]

\* total_pay / trials, whatever trials is.
mean_unguarded(total, trials) ==
    IF trials # 0 THEN Frac(total.num, total.den * trials) ELSE ZeroDivisionError

\* total_pay / trials if trials else 0.0
mean(total, trials) == IF trials # 0 THEN Frac(total.num, total.den * trials) ELSE Zero

\* if ev >= best_ev
improves_or_ties(ev_new, best) == ~FracGt(best, ev_new)

\* if ev > best_ev
improves(ev_new, best) == FracGt(ev_new, best)

hot_roll_paytable_bet == 5

(***************************************************************************)
(* State.                                                                  *)
(***************************************************************************)
VARIABLES
    cards,      \* the sequence of cards handed to an evaluator
    ruleset,    \* the function that was called on cards or tok ("none" before the call)
    result,     \* what the last call returned or raised
    args,       \* the run's arguments: frozen, trials, ruleset, hot_roll, bet
    pc,         \* where the run is: idle, mask_loop, trial_loop, frozen_loop, done, raised
    init,       \* the initial hand of the call in progress
    cache,      \* strategy's cache: key -> mask
    decision,   \* the masks strategy has returned so far: {} before the first return,
                \* then the one HoldDecision.mask of the last call
    mask,       \* strategy's loop variable
    best_mask,
    best_ev,
    ev,         \* the value of ev in each finished iteration: mask -> EV
    trial,      \* the number of finished trials of the loop in progress
    final,      \* the hand buffer the trials fill and evaluate
    total_pay,
    rng_draws,  \* the draws taken from the call's generator
    hold_mask,  \* frozen_ev_mc's arguments and locals
    total_payout,
    cat_counts,
    report,     \* the FrozenResult returned (None before)
    rng_seed,   \* the seed of the call's generator, as the set of its one bits
    first_run,  \* what the run is compared with: the search of an earlier process or
                \* strategy, or of a strategy running beside it on the same generator
    tok,        \* the token handed to a card parser
    deck,       \* Deck.cards
    dealt,      \* the cards the deck handed out since its last reset, in order
    st,         \* the HotRollState of the hand
    calls       \* the calls of maybe_trigger_hot_roll on st: phase and return value

evalVars == <<cards, ruleset, result>>

mcVars == <<args, pc, init, cache, decision, mask, best_mask, best_ev, ev, trial,
            final, total_pay, rng_draws, hold_mask, total_payout, cat_counts, report,
            rng_seed, first_run>>

frozenVars == <<hold_mask, total_payout, cat_counts, report>>

vars == <<cards, ruleset, result, args, pc, init, cache, decision, mask, best_mask,
          best_ev, ev, trial, final, total_pay, rng_draws, hold_mask, total_payout,
          cat_counts, report, rng_seed, first_run, tok, deck, dealt, st, calls>>

EmptyDict == <<>>

\* key = tuple(sorted((c.rank, c.suit) for c in init)), for cards of five ranks
key_sorted(hand) ==
    LET rs == sorted([i \in 1..Len(hand) |-> hand[i].rank])
    IN  [i \in 1..Len(hand) |->
            LET c == hand[CHOOSE j \in 1..Len(hand) : hand[j].rank = rs[i]]
            IN  <<c.rank, c.suit>>]

\* key = tuple((c.rank, c.suit) for c in init)
key(hand) == [i \in 1..Len(hand) |-> <<hand[i].rank, hand[i].suit>>]

\* --seed's default.
seed_default == 42

\* hash(key) of a process started with PYTHONHASHSEED=0, whatever the key.  The
\* hash of a tuple that holds strings depends on the salt of the process.
hash_unsalted == {0, 2}

\* The arguments of a run, and the hash of the key of each of its hands in the
\* process that runs it.
Args(frozen, trials, rules, hot_roll, bet, hands) ==
    [frozen |-> frozen, trials |-> trials, ruleset |-> rules,
     hot_roll |-> hot_roll, bet |-> bet, hands |-> hands, seed |-> seed_default,
     hash |-> [k \in {key(h) : h \in hands} |-> hash_unsalted]]

\* No earlier process.
NoRun == [done |-> FALSE, init |-> <<>>, rng_seed |-> {}, ev |-> EmptyDict, mask |-> 0,
          best_ev |-> <<>>, rng_draws |-> 0]

\* The search and reporter state before any call.
McStart ==
    /\ pc = "idle"
    /\ init = <<>>
    /\ cache = EmptyDict
    /\ decision = {}
    /\ mask = 0
    /\ best_mask = 0
    /\ best_ev = Frac(-1, 1)
    /\ ev = EmptyDict
    /\ trial = 0
    /\ final = <<>>
    /\ total_pay = Zero
    /\ rng_draws = 0
    /\ hold_mask = 0
    /\ total_payout = 0
    /\ cat_counts = EmptyDict
    /\ report = None
    /\ rng_seed = {}
    /\ first_run = NoRun

\* No parser and no deck.
NoDeck == tok = <<>> /\ deck = <<>> /\ dealt = <<>>

\* An Optional[int]: None is the empty set, the integer m is the set {m}.
NoInt == {}

SomeInt(m) == {m}

\* HotRollState(): both fields default to None.
HotRollState(scheduled_phase, multiplier) ==
    [scheduled_phase |-> scheduled_phase, multiplier |-> multiplier]

\* No Hot Roll state in use.
NoHotRoll == st = HotRollState(None, NoInt) /\ calls = <<>>

(***************************************************************************)
(* Inputs of the evaluators.  Five-card hands are every sorted rank        *)
(* multiset of RANKS (at most four of a rank) dressed with one of the suit *)
(* patterns "the first j positions take SUITS in turn, the others suit s": *)
(* j = 0 is one suit, j = 5 is the rainbow, and 1 <= j <= 4 leaves the     *)
(* deuces (sorted first) unsuited and the naturals suited.  Hands with     *)
(* a repeated card are left out.                                            *)
(***************************************************************************)
MaxHandLen == 6

SuitSet == {SUITS[i] : i \in 1..Len(SUITS)}

SuitPattern(j, s) == [i \in 1..5 |-> IF i <= j THEN SUITS[((i - 1) % 4) + 1] ELSE s]

MakeHand(rs, ss) == [i \in 1..Len(rs) |-> Card(rs[i], ss[i])]

Distinct(h) == \A i, j \in 1..Len(h) : i # j => h[i] # h[j]

\* n cards of suit s with consecutive ranks from 2 + start (wrapping at the ace).
Run(start, s, n) == [i \in 1..n |-> Card(2 + ((start + i - 1) % 13), s)]

FourDeuces == [i \in 1..4 |-> Card(2, SUITS[i])]

\* Sequences of the wrong length: 0..MaxHandLen cards, never 5.
WrongSizeHands ==
    {Run(start, s, n) :
        start \in 0..12, s \in SuitSet, n \in (0..MaxHandLen) \ {5}}
    \cup
    {FourDeuces \o Run(start, s, n - 4) :
        start \in 1..12, s \in SuitSet, n \in (4..MaxHandLen) \ {5}}

InitEval ==
    /\ \/ \E r1 \in RANKS : \E r2 \in r1..14 : \E r3 \in r2..14 :
          \E r4 \in r3..14 : \E r5 \in r4..14 :
          \E j \in 0..5 : \E s \in SuitSet :
             /\ cards = MakeHand(<<r1, r2, r3, r4, r5>>, SuitPattern(j, s))
             /\ Distinct(cards)
       \/ cards \in WrongSizeHands
    /\ ruleset = "none"
    /\ result = "none"
    /\ args = Args(FALSE, 0, "job", FALSE, 1, {})
    /\ McStart
    /\ NoHotRoll
    /\ NoDeck

CallEvaluateHand ==
    /\ ruleset = "none"
    /\ ruleset' = "job"
    /\ result' = evaluate_hand(cards)
    /\ UNCHANGED <<cards, mcVars, tok, deck, dealt, st, calls>>

CallEvaluateDeuces ==
    /\ ruleset = "none"
    /\ ruleset' = "deuces"
    /\ result' = evaluate_deuces(cards)
    /\ UNCHANGED <<cards, mcVars, tok, deck, dealt, st, calls>>

CallEvaluateDeucesBonus ==
    /\ ruleset = "none"
    /\ ruleset' = "deuces_bonus"
    /\ result' = evaluate_deuces_bonus(cards)
    /\ UNCHANGED <<cards, mcVars, tok, deck, dealt, st, calls>>

(***************************************************************************)
(* Reordered hands: one hand of every standard category, and the caller    *)
(* exchanging two neighbouring positions before the evaluator is called,   *)
(* which reaches every ordering of the five cards.                         *)
(***************************************************************************)
Rainbow == SuitPattern(5, "S")

ReorderSeeds ==
    {MakeHand(<<10, 11, 12, 13, 14>>, SuitPattern(0, "S")),
     MakeHand(<<2, 3, 4, 5, 14>>, SuitPattern(0, "H")),
     MakeHand(<<5, 6, 7, 8, 9>>, SuitPattern(0, "D")),
     MakeHand(<<3, 14, 14, 14, 14>>, Rainbow),
     MakeHand(<<9, 14, 14, 14, 14>>, Rainbow),
     MakeHand(<<14, 3, 3, 3, 3>>, Rainbow),
     MakeHand(<<4, 2, 2, 2, 2>>, Rainbow),
     MakeHand(<<9, 4, 4, 4, 4>>, Rainbow),
     MakeHand(<<2, 9, 9, 9, 9>>, Rainbow),
     MakeHand(<<2, 2, 7, 7, 7>>, Rainbow),
     MakeHand(<<2, 5, 9, 11, 13>>, SuitPattern(0, "C")),
     MakeHand(<<10, 11, 12, 13, 14>>, Rainbow),
     MakeHand(<<2, 3, 4, 5, 14>>, Rainbow),
     MakeHand(<<3, 8, 8, 8, 13>>, Rainbow),
     MakeHand(<<4, 4, 9, 11, 11>>, Rainbow),
     MakeHand(<<3, 7, 9, 12, 12>>, Rainbow),
     MakeHand(<<3, 7, 9, 10, 10>>, Rainbow),
     MakeHand(<<2, 5, 9, 11, 13>>, Rainbow)}

InitReorder ==
    /\ cards \in ReorderSeeds
    /\ ruleset = "none"
    /\ result = "none"
    /\ args = Args(FALSE, 0, "job", FALSE, 1, {})
    /\ McStart
    /\ NoHotRoll
    /\ NoDeck

SwapNeighbours ==
    /\ ruleset = "none"
    /\ \E i \in 1..(Len(cards) - 1) :
           cards' = [cards EXCEPT ![i] = cards[i + 1], ![i + 1] = cards[i]]
    /\ UNCHANGED <<ruleset, result, mcVars, tok, deck, dealt, st, calls>>

NextReorder == SwapNeighbours \/ CallEvaluateHand

SpecReorder == InitReorder /\ [][NextReorder]_vars

(***************************************************************************)
(* Hands given to the rule-driven strategy: the five-card hands given to   *)
(* the evaluators, in three orders of their positions, so that deuces,     *)
(* pairs and suited cards lie at the front, at the back and apart.         *)
(***************************************************************************)
Arrangements == {<<1, 2, 3, 4, 5>>, <<5, 4, 3, 2, 1>>, <<3, 1, 5, 2, 4>>}

Arrange(h, a) == [i \in 1..5 |-> h[a[i]]]

InitJRiff ==
    /\ \E r1 \in RANKS : \E r2 \in r1..14 : \E r3 \in r2..14 :
       \E r4 \in r3..14 : \E r5 \in r4..14 :
       \E j \in 0..5 : \E s \in SuitSet : \E a \in Arrangements :
          LET h == MakeHand(<<r1, r2, r3, r4, r5>>, SuitPattern(j, s))
          IN  Distinct(h) /\ cards = Arrange(h, a)
    /\ ruleset = "none"
    /\ result = "none"
    /\ args = Args(FALSE, 0, "deuces_bonus", FALSE, 1, {})
    /\ McStart
    /\ NoHotRoll
    /\ NoDeck

\* j_riff_strategy_deuces_wild_bonus(cards): result is the category it looked at,
\* decision the mask of its HoldDecision.
CallJRiff ==
    /\ ruleset = "none"
    /\ ruleset' = "j_riff"
    /\ result' = j_riff_category(cards)
    /\ decision' = {j_riff_strategy_deuces_wild_bonus(cards)}
    /\ UNCHANGED <<tok, deck, dealt, st, calls, rng_seed, first_run,
                   cards, args, pc, init, cache, mask, best_mask, best_ev, ev, trial,
                   final, total_pay, rng_draws, frozenVars>>

NextJRiff == CallJRiff

SpecJRiff == InitJRiff /\ [][NextJRiff]_vars

(***************************************************************************)
(* A run of the command line (cli.py): either the frozen-hand report, or   *)
(* a simulation that calls the strategy made by make_mc_best_strategy on   *)
(* the hands it deals, args.hands, again and again.  The generator's       *)
(* values are not modelled: every value it can return is a possible step.  *)
(***************************************************************************)
TenToKingClubs == MakeHand(<<10, 11, 12, 13>>, <<"C", "C", "C", "C">>)

\* A royal flush, and four to two royal flushes.
McHands == {TenToKingClubs \o <<Card(14, "C")>>, TenToKingClubs \o <<Card(14, "D")>>}

InitMc ==
    /\ cards = <<>>
    /\ ruleset = "none"
    /\ result = "none"
    /\ \E t \in 0..MaxTrials, hand \in McHands :
          \/ \E b \in {1, 2} : args = Args(TRUE, t, "job", FALSE, b, {hand})
          \/ args = Args(FALSE, t, "job", FALSE, 1, {hand})
          \/ args = Args(FALSE, t, "deuces_bonus", TRUE, 1, {hand})
    /\ McStart
    /\ NoHotRoll
    /\ NoDeck

\* make_mc_best_strategy: what the closure keeps of its arguments.
expected_mult == IF args.hot_roll THEN expected_multiplier_2d6(p_per_hand) ELSE Frac(1, 1)

paytable_bet == IF args.hot_roll THEN hot_roll_paytable_bet ELSE 1

\* hash(key), in the process of the run
hash(k) == args.hash[k]

\* A seed that moves with every hand the strategy has searched, as the state of
\* one generator kept across the calls would.
seed_for_shared(k) == xor(Bits(args.seed), Bits(Cardinality(DOMAIN cache)))

\* cfg.seed ^ (hash(key) & 0xFFFFFFFF)
seed_for(k) == xor(Bits(args.seed), and_0xFFFFFFFF(hash(k)))

\* random.Random(seed) is the stream of its seed: a process that seeds the
\* generator for a hand as an earlier process did draws what that one drew.
replays(hand) ==
    first_run.done /\ first_run.init = hand /\ first_run.rng_seed = seed_for(key(hand))

\* strategy(init), up to the loop over the masks: a cached hand returns at once.
StrategyCall ==
    /\ pc = "idle"
    /\ ~args.frozen
    /\ \E hand \in args.hands :
          /\ init' = hand
          /\ IF key(hand) \in DOMAIN cache
             THEN /\ decision' = {cache[key(hand)]}
                  /\ pc' = "idle"
                  /\ UNCHANGED <<mask, best_mask, best_ev, ev, rng_draws, rng_seed>>
             ELSE /\ ~replays(hand)
                  /\ rng_seed' = seed_for(key(hand))
                  /\ pc' = IF fresh_deck_raises(hand) THEN "raised" ELSE "mask_loop"
                  /\ rng_draws' = 0
                  /\ best_mask' = 0
                  /\ best_ev' = Frac(-1, 1)
                  /\ mask' = 0
                  /\ ev' = EmptyDict
                  /\ UNCHANGED decision
    /\ UNCHANGED <<evalVars, tok, deck, dealt, st, calls, first_run,
                   args, cache, trial, final, total_pay, frozenVars>>

\* _mc_ev_for_mask, up to its loop over the trials.
McEvForMask ==
    /\ pc = "mask_loop"
    /\ mask < 32
    /\ final' = init
    /\ total_pay' = Zero
    /\ trial' = 0
    /\ pc' = "trial_loop"
    /\ UNCHANGED <<evalVars, tok, deck, dealt, st, calls, rng_seed, first_run,
                   args, init, cache, decision, mask, best_mask, best_ev, ev,
                   rng_draws, frozenVars>>

\* One trial of _mc_ev_for_mask.
McTrial ==
    /\ pc = "trial_loop"
    /\ trial < args.trials
    /\ LET positions == draw_pos(mask)
           draw_n    == Len(positions)
       IN  \E drawn \in (IF draw_n # 0
                        THEN _draw_k(_fresh_deck_excluding(init), draw_n)
                        ELSE {<<>>}) :
              LET filled == fill(final, positions, drawn)
                  unit   == payout_for(evaluator(args.ruleset, filled))
              IN  /\ final' = filled
                  /\ total_pay' =
                         FracAdd(total_pay, FracMul(Frac(unit * paytable_bet, 1), expected_mult))
                  /\ rng_draws' = rng_draws + consumes(draw_n)
    /\ trial' = trial + 1
    /\ UNCHANGED <<evalVars, tok, deck, dealt, st, calls, rng_seed, first_run,
                   args, pc, init, cache, decision, mask, best_mask, best_ev, ev,
                   frozenVars>>

\* _mc_ev_for_mask returns and strategy compares the EV with the best so far.
McEvReturn ==
    /\ pc = "trial_loop"
    /\ trial = args.trials
    /\ LET ev_now == mean(total_pay, args.trials)
       IN  IF ev_now = ZeroDivisionError
           THEN /\ pc' = "raised"
                /\ UNCHANGED <<ev, best_ev, best_mask, mask>>
           ELSE /\ ev' = [m \in 0..mask |-> IF m = mask THEN ev_now ELSE ev[m]]
                /\ IF improves(ev_now, best_ev)
                   THEN best_ev' = ev_now /\ best_mask' = mask
                   ELSE UNCHANGED <<best_ev, best_mask>>
                /\ mask' = mask + 1
                /\ pc' = "mask_loop"
    /\ UNCHANGED <<evalVars, tok, deck, dealt, st, calls, rng_seed, first_run,
                   args, init, cache, decision, trial, final, total_pay,
                   rng_draws, frozenVars>>

\* strategy stores the decision and returns it.
StrategyReturn ==
    /\ pc = "mask_loop"
    /\ mask = 32
    /\ cache' = [k \in DOMAIN cache \cup {key(init)} |->
                    IF k = key(init) THEN best_mask ELSE cache[k]]
    /\ decision' = {best_mask}
    /\ pc' = "idle"
    /\ UNCHANGED <<evalVars, tok, deck, dealt, st, calls, rng_seed, first_run,
                   args, init, mask, best_mask, best_ev, ev, trial, final,
                   total_pay, rng_draws, frozenVars>>

\* The --hold-mask values of the frozen runs: 5, 3, 2, 1 and 0 draws, and a mask
\* with a bit above the five positions.
HoldMasks == {0, 6, 28, 15, 31, 47}

\* cat_counts[cat] = cat_counts.get(cat, 1) + 1
count_one_default_one(counts, cat) ==
    [c \in DOMAIN counts \cup {cat} |->
        IF c = cat THEN (IF cat \in DOMAIN counts THEN counts[cat] ELSE 1) + 1
        ELSE counts[c]]

\* cat_counts[cat] = cat_counts.get(cat, 0) + 1
count_one(counts, cat) ==
    [c \in DOMAIN counts \cup {cat} |->
        IF c = cat THEN (IF cat \in DOMAIN counts THEN counts[cat] ELSE 0) + 1
        ELSE counts[c]]

\* frozen_ev_mc(paytable, initial, hold_mask, trials, bet_per_hand, seed), up to its loop.
FrozenCall ==
    /\ pc = "idle"
    /\ args.frozen
    /\ \E hand \in args.hands : init' = hand
    /\ \E m \in HoldMasks : hold_mask' = m
    /\ total_payout' = 0
    /\ cat_counts' = EmptyDict
    /\ trial' = 0
    /\ rng_draws' = 0
    /\ pc' = "frozen_loop"
    /\ UNCHANGED <<evalVars, tok, deck, dealt, st, calls, rng_seed, first_run,
                   args, cache, decision, mask, best_mask, best_ev, ev, final,
                   total_pay, report>>

\* One trial of frozen_ev_mc.
FrozenTrial ==
    /\ pc = "frozen_loop"
    /\ trial < args.trials
    /\ LET remaining      == without(FULL_DECK, CardsOf(init))
           draw_positions == draw_pos(hold_mask)
           draw_n         == Len(draw_positions)
       IN  \E drawn \in (IF draw_n # 0 THEN sample(CardsOf(remaining), draw_n) ELSE {<<>>}) :
              LET filled == fill(init, draw_positions, drawn)
                  cat    == evaluate_hand(filled)
              IN  /\ final' = filled
                  /\ cat_counts' = count_one(cat_counts, cat)
                  /\ total_payout' = total_payout + payout_for(cat) * args.bet
                  /\ rng_draws' = rng_draws + consumes(draw_n)
    /\ trial' = trial + 1
    /\ UNCHANGED <<evalVars, tok, deck, dealt, st, calls, rng_seed, first_run,
                   args, pc, init, cache, decision, mask, best_mask, best_ev, ev,
                   total_pay, hold_mask, report>>

\* frozen_ev_mc returns its FrozenResult.
FrozenReturn ==
    /\ pc = "frozen_loop"
    /\ trial = args.trials
    /\ LET avg_payout == mean(Frac(total_payout, 1), args.trials)
       IN  IF avg_payout = ZeroDivisionError
           THEN pc' = "raised" /\ UNCHANGED report
           ELSE /\ report' = [trials |-> args.trials, hold_mask |-> hold_mask,
                              avg_payout |-> avg_payout,
                              avg_net |-> FracAdd(avg_payout, Frac(0 - args.bet, 1)),
                              category_counts |-> cat_counts]
                /\ pc' = "done"
    /\ UNCHANGED <<evalVars, tok, deck, dealt, st, calls, rng_seed, first_run,
                   args, init, cache, decision, mask, best_mask, best_ev, ev,
                   trial, final, total_pay, rng_draws, hold_mask, total_payout, cat_counts>>

NextMc ==
    \/ StrategyCall \/ McEvForMask \/ McTrial \/ McEvReturn \/ StrategyReturn
    \/ FrozenCall \/ FrozenTrial \/ FrozenReturn

SpecMc == InitMc /\ [][NextMc]_vars

NextEval == CallEvaluateHand \/ CallEvaluateDeuces \/ CallEvaluateDeucesBonus

Spec == InitEval /\ [][NextEval]_vars

(***************************************************************************)
(* deck.py.  A Deck made with cards=_initial_cards; rng.shuffle leaves the *)
(* list in any order.  What a method returned or raised is kept in result. *)
(***************************************************************************)
_initial_cards == TenToKingClubs \o <<Card(14, "C")>>

\* The orders of the list xs.
RECURSIVE Orders(_)
Orders(xs) ==
    IF xs = <<>> THEN {<<>>}
    ELSE UNION {{<<xs[i]>> \o p :
                    p \in Orders(SubSeq(xs, 1, i - 1) \o SubSeq(xs, i + 1, Len(xs)))} :
                   i \in 1..Len(xs)}

\* xs[:n] and xs[n:]
slice_to(xs, n) ==
    IF n >= 0 THEN SubSeq(xs, 1, IF n < Len(xs) THEN n ELSE Len(xs))
    ELSE SubSeq(xs, 1, IF Len(xs) + n > 0 THEN Len(xs) + n ELSE 0)

\* del xs[:n + 1]
slice_past(xs, n) == SubSeq(xs, Len(slice_to(xs, n)) + 2, Len(xs))

slice_from(xs, n) == SubSeq(xs, Len(slice_to(xs, n)) + 1, Len(xs))

Returned(op, arg, out) == [op |-> op, arg |-> arg, out |-> out, raised |-> None]

Raised(op, arg, error) == [op |-> op, arg |-> arg, out |-> None, raised |-> error]

\* if n >= len(self.cards): raise
deal_raises_on_last(xs, n) == n >= Len(xs)

\* if n > len(self.cards): raise
deal_raises(xs, n) == n > Len(xs)

\* Deck(cards=_initial_cards): __init__ ends with reset().
InitDeck ==
    /\ cards = <<>>
    /\ ruleset = "none"
    /\ args = Args(FALSE, 0, "job", FALSE, 1, {})
    /\ McStart
    /\ NoHotRoll
    /\ tok = <<>>
    /\ deck \in Orders(_initial_cards)
    /\ dealt = <<>>
    /\ result = Returned("__init__", 0, None)

reset ==
    /\ deck' \in Orders(_initial_cards)
    /\ dealt' = <<>>
    /\ result' = Returned("reset", 0, None)
    /\ UNCHANGED <<cards, ruleset, mcVars, tok, st, calls>>

shuffle ==
    /\ deck' \in Orders(deck)
    /\ result' = Returned("shuffle", 0, None)
    /\ UNCHANGED dealt
    /\ UNCHANGED <<cards, ruleset, mcVars, tok, st, calls>>

deal ==
    /\ \E n \in -1..(Len(_initial_cards) + 1) :
          IF deal_raises(deck, n)
          THEN /\ result' = Raised("deal", n, ValueError)
               /\ UNCHANGED <<deck, dealt>>
          ELSE /\ result' = Returned("deal", n, slice_to(deck, n))
               /\ deck' = slice_from(deck, n)
               /\ dealt' = dealt \o slice_to(deck, n)
    /\ UNCHANGED <<cards, ruleset, mcVars, tok, st, calls>>

draw ==
    /\ IF deck = <<>>
       THEN /\ result' = Raised("draw", 0, ValueError)
            /\ UNCHANGED <<deck, dealt>>
       ELSE /\ result' = Returned("draw", 0, Head(deck))
            /\ deck' = Tail(deck)
            /\ dealt' = Append(dealt, Head(deck))
    /\ UNCHANGED <<cards, ruleset, mcVars, tok, st, calls>>

NextDeck == reset \/ shuffle \/ deal \/ draw

SpecDeck == InitDeck /\ [][NextDeck]_vars

(***************************************************************************)
(* The card parsers of frozen.py and holding_strategy_check.py.  A string  *)
(* is the sequence of its characters.                                      *)
(***************************************************************************)
IndexError == "IndexError"

MaxTokLen == 3

\* The characters of the tokens handed to the parsers.
Chars == {"0", "1", "2", "5", "9", "A", "K", "Q", "J", "T", "S", "H", "D", "C", "t", "h", " "}

Tokens == UNION {[1..n -> Chars] : n \in 1..MaxTokLen}

\* str.upper()
upper_char(c) == IF c = "t" THEN "T" ELSE IF c = "h" THEN "H" ELSE c

upper(str) == [i \in 1..Len(str) |-> upper_char(str[i])]

\* str.strip()
RECURSIVE lstrip(_)
lstrip(str) == IF str # <<>> /\ Head(str) = " " THEN lstrip(Tail(str)) ELSE str

RECURSIVE rstrip(_)
rstrip(str) ==
    IF str # <<>> /\ str[Len(str)] = " " THEN rstrip(SubSeq(str, 1, Len(str) - 1)) ELSE str

strip(str) == rstrip(lstrip(str))

\* int(str): the decimal digits, with white space around them.
digits == <<"0", "1", "2", "3", "4", "5", "6", "7", "8", "9">>

is_digit(c) == \E i \in 1..Len(digits) : digits[i] = c

digit(c) == (CHOOSE i \in 1..Len(digits) : digits[i] = c) - 1

int_raises(str) == strip(str) = <<>> \/ \E i \in 1..Len(strip(str)) : ~is_digit(strip(str)[i])

RECURSIVE int_digits(_)
int_digits(ds) ==
    IF ds = <<>> THEN 0
    ELSE 10 * int_digits(SubSeq(ds, 1, Len(ds) - 1)) + digit(ds[Len(ds)])

int(str) == int_digits(strip(str))

\* frozen.py: the ranks parse_card spells with a letter.
letter_rank == [c \in {"A", "K", "Q", "J"} |->
                   IF c = "A" THEN 14 ELSE IF c = "K" THEN 13 ELSE IF c = "Q" THEN 12 ELSE 11]

\* frozen.py, parse_card(tok)
parse_card(token) ==
    LET t == upper(strip(token))
    IN  IF t = <<>> THEN Raised("parse_card", token, IndexError)
        ELSE LET suit == t[Len(t)]
                 r    == SubSeq(t, 1, Len(t) - 1)
                 by_letter == Len(r) = 1 /\ r[1] \in DOMAIN letter_rank
             IN  IF suit \notin {"S", "H", "D", "C"} THEN Raised("parse_card", token, ValueError)
                 ELSE IF ~by_letter /\ int_raises(r) THEN Raised("parse_card", token, ValueError)
                 ELSE LET rank == IF by_letter THEN letter_rank[r[1]] ELSE int(r)
                      IN  IF rank < 2 \/ rank > 14
                          THEN Raised("parse_card", token, ValueError)
                          ELSE Card(rank, suit)

\* holding_strategy_check.py
RANK_MAP == [c \in {"2", "3", "4", "5", "6", "7", "8", "9", "T", "J", "Q", "K", "A"} |->
                IF is_digit(c) THEN digit(c)
                ELSE IF c = "T" THEN 10 ELSE IF c = "J" THEN 11 ELSE IF c = "Q" THEN 12
                ELSE IF c = "K" THEN 13 ELSE 14]

\* holding_strategy_check.py, parse_card(tok)
holding_strategy_check_parse_card(token) ==
    LET t == upper(strip(token))
    IN  IF Len(t) # 2 THEN Raised("parse_card", token, ValueError)
        ELSE IF t[1] \notin DOMAIN RANK_MAP \/ t[2] \notin {"C", "D", "H", "S"}
             THEN Raised("parse_card", token, ValueError)
             ELSE Card(RANK_MAP[t[1]], t[2])

InitParse ==
    /\ cards = <<>>
    /\ ruleset = "none"
    /\ result = "none"
    /\ args = Args(FALSE, 0, "job", FALSE, 1, {})
    /\ McStart
    /\ NoHotRoll
    /\ deck = <<>>
    /\ dealt = <<>>
    /\ tok \in Tokens

CallParseCard ==
    /\ ruleset = "none"
    /\ ruleset' = "frozen.parse_card"
    /\ result' = parse_card(tok)
    /\ UNCHANGED <<cards, mcVars, tok, deck, dealt, st, calls>>

CallCheckParseCard ==
    /\ ruleset = "none"
    /\ ruleset' = "holding_strategy_check.parse_card"
    /\ result' = holding_strategy_check_parse_card(tok)
    /\ UNCHANGED <<cards, mcVars, tok, deck, dealt, st, calls>>

NextParse == CallParseCard \/ CallCheckParseCard

SpecParse == InitParse /\ [][NextParse]_vars

(***************************************************************************)
(* One strategy made by make_mc_best_strategy, called again and again on   *)
(* two hands of the same cards: four to two royal flushes with the ace     *)
(* last, and with the ace first.                                           *)
(***************************************************************************)
AceLast == TenToKingClubs \o <<Card(14, "D")>>

AceFirst == <<Card(14, "D")>> \o TenToKingClubs

\* --mc_trials of the run
mc_trials == 1

InitCache ==
    /\ cards = <<>>
    /\ ruleset = "none"
    /\ result = "none"
    /\ args = Args(FALSE, mc_trials, "job", FALSE, 1, {AceLast, AceFirst})
    /\ McStart
    /\ NoHotRoll
    /\ NoDeck

NextCache == StrategyCall \/ McEvForMask \/ McTrial \/ McEvReturn \/ StrategyReturn

SpecCache == InitCache /\ [][NextCache]_vars

(***************************************************************************)
(* The same command line run twice, in two processes.  The key of a hand   *)
(* holds the suits' strings, whose hashes are salted per process, so       *)
(* hash(key) of the second process is any value again.  The values of a    *)
(* generator are not modelled: a search draws anything, except that a      *)
(* generator seeded for a hand as in the first process repeats its draws,  *)
(* and with them the first search.                                         *)
(***************************************************************************)
\* hash(key) under three salts: 5, 5 + 2^32 and 7.
HashValues == {{0, 2}, {0, 2, 32}, {0, 1, 2}}

InitRuns ==
    /\ cards = <<>>
    /\ ruleset = "none"
    /\ result = "none"
    /\ \E hand \in McHands, h \in HashValues :
          args = [Args(FALSE, mc_trials, "job", FALSE, 1, {hand}) EXCEPT
                     !.hash = [k \in DOMAIN @ |-> h]]
    /\ McStart
    /\ NoHotRoll
    /\ NoDeck

\* strategy(init) of the second process with the generator of the first: the
\* loop over the masks ends as it ended there.
StrategyReplay ==
    /\ pc = "idle"
    /\ ~args.frozen
    /\ \E hand \in args.hands :
          /\ key(hand) \notin DOMAIN cache
          /\ replays(hand)
          /\ init' = hand
          /\ rng_seed' = seed_for(key(hand))
    /\ ev' = first_run.ev
    /\ best_mask' = first_run.mask
    /\ best_ev' = first_run.best_ev
    /\ rng_draws' = first_run.rng_draws
    /\ mask' = 32
    /\ pc' = "mask_loop"
    /\ UNCHANGED <<evalVars, tok, deck, dealt, st, calls, first_run,
                   args, cache, decision, trial, final, total_pay, frozenVars>>

\* The process ends after a call of its strategy, and the command line is run
\* again: another salt, an empty cache.
RunAgain ==
    /\ pc = "idle"
    /\ ~args.frozen
    /\ decision # {}
    /\ ~first_run.done
    /\ first_run' = [done |-> TRUE, init |-> init, rng_seed |-> rng_seed, ev |-> ev,
                     mask |-> best_mask, best_ev |-> best_ev, rng_draws |-> rng_draws]
    /\ \E h \in HashValues : args' = [args EXCEPT !.hash = [k \in DOMAIN @ |-> h]]
    /\ pc' = "idle"
    /\ init' = <<>>
    /\ cache' = EmptyDict
    /\ decision' = {}
    /\ mask' = 0
    /\ best_mask' = 0
    /\ best_ev' = Frac(-1, 1)
    /\ ev' = EmptyDict
    /\ trial' = 0
    /\ final' = <<>>
    /\ total_pay' = Zero
    /\ rng_draws' = 0
    /\ rng_seed' = {}
    /\ UNCHANGED <<evalVars, tok, deck, dealt, st, calls, frozenVars>>

NextRuns ==
    \/ StrategyCall \/ McEvForMask \/ McTrial \/ McEvReturn \/ StrategyReturn
    \/ StrategyReplay \/ RunAgain

SpecRuns == InitRuns /\ [][NextRuns]_vars

(***************************************************************************)
(* Two strategies made by make_mc_best_strategy with the same arguments in *)
(* one process.  The first is called on one hand only; the second is then  *)
(* called on the hands in any order.  first_run keeps the search of the    *)
(* first strategy.  hash(key) is what it is for the whole process.         *)
(***************************************************************************)
InitHistory ==
    /\ cards = <<>>
    /\ ruleset = "none"
    /\ result = "none"
    /\ \E h \in HashValues :
          args = [Args(FALSE, mc_trials, "job", FALSE, 1, {AceLast, AceFirst}) EXCEPT
                     !.hash[key(AceFirst)] = h]
    /\ McStart
    /\ NoHotRoll
    /\ NoDeck

\* make_mc_best_strategy is called again with the same arguments: a new closure
\* with an empty cache.  The first strategy has searched one hand.
NewInstance ==
    /\ pc = "idle"
    /\ ~args.frozen
    /\ ~first_run.done
    /\ DOMAIN cache = {key(init)}
    /\ first_run' = [done |-> TRUE, init |-> init, rng_seed |-> rng_seed, ev |-> ev,
                     mask |-> best_mask, best_ev |-> best_ev, rng_draws |-> rng_draws]
    /\ init' = <<>>
    /\ cache' = EmptyDict
    /\ decision' = {}
    /\ mask' = 0
    /\ best_mask' = 0
    /\ best_ev' = Frac(-1, 1)
    /\ ev' = EmptyDict
    /\ trial' = 0
    /\ final' = <<>>
    /\ total_pay' = Zero
    /\ rng_draws' = 0
    /\ rng_seed' = {}
    /\ UNCHANGED <<evalVars, tok, deck, dealt, st, calls, frozenVars, args, pc>>

NextHistory ==
    \/ StrategyCall \/ McEvForMask \/ McTrial \/ McEvReturn \/ StrategyReturn
    \/ StrategyReplay \/ NewInstance

SpecHistory == InitHistory /\ [][NextHistory]_vars

(***************************************************************************)
(* Two strategies made by make_mc_best_strategy with the same paytable,    *)
(* evaluator, trials and seed, one without hot_roll_cfg and one with the   *)
(* default HotRollConfig, called on the same hand in one process.  Both    *)
(* seed their generator with cfg.seed ^ (hash(key) & 0xFFFFFFFF) and call  *)
(* _draw_k with the same arguments in the same order, so the k-th call     *)
(* returns the same cards to both: the two searches take each draw         *)
(* together.  The variables of the search hold the strategy without Hot    *)
(* Roll weighting, first_run the locals of the one with it.                *)
(***************************************************************************)
\* expected_mult and paytable_bet of a closure made with or without hot_roll_cfg.
expected_mult_of(hot_roll) ==
    IF hot_roll THEN expected_multiplier_2d6(p_per_hand) ELSE Frac(1, 1)

paytable_bet_of(hot_roll) == IF hot_roll THEN hot_roll_paytable_bet ELSE 1

\* (unit * paytable_bet) * expected_mult
trial_pay(unit, hot_roll) ==
    FracMul(Frac(unit * paytable_bet_of(hot_roll), 1), expected_mult_of(hot_roll))

InitWeighted ==
    /\ cards = <<>>
    /\ ruleset = "none"
    /\ result = "none"
    /\ \E t \in 0..MaxTrials, hand \in McHands :
          args = Args(FALSE, t, "deuces_bonus", FALSE, 1, {hand})
    /\ McStart
    /\ NoHotRoll
    /\ NoDeck

\* strategy(init) of both, up to the loop over the masks.
WeightedCall ==
    /\ pc = "idle"
    /\ \E hand \in args.hands :
          /\ key(hand) \notin DOMAIN cache
          /\ init' = hand
          /\ rng_seed' = seed_for(key(hand))
          /\ pc' = IF fresh_deck_raises(hand) THEN "raised" ELSE "mask_loop"
          /\ first_run' = [done |-> FALSE, init |-> hand, rng_seed |-> seed_for(key(hand)),
                           ev |-> EmptyDict, mask |-> 0, best_ev |-> Frac(-1, 1),
                           rng_draws |-> 0, total_pay |-> Zero]
    /\ rng_draws' = 0
    /\ best_mask' = 0
    /\ best_ev' = Frac(-1, 1)
    /\ mask' = 0
    /\ ev' = EmptyDict
    /\ UNCHANGED <<evalVars, tok, deck, dealt, st, calls, args, cache, decision, trial,
                   final, total_pay, frozenVars>>

\* _mc_ev_for_mask of both, up to the loop over the trials.
WeightedEvForMask ==
    /\ pc = "mask_loop"
    /\ mask < 32
    /\ final' = init
    /\ total_pay' = Zero
    /\ first_run' = [first_run EXCEPT !.total_pay = Zero]
    /\ trial' = 0
    /\ pc' = "trial_loop"
    /\ UNCHANGED <<evalVars, tok, deck, dealt, st, calls, rng_seed, args, init, cache,
                   decision, mask, best_mask, best_ev, ev, rng_draws, frozenVars>>

\* One trial of both: the generators return the same cards.
WeightedTrial ==
    /\ pc = "trial_loop"
    /\ trial < args.trials
    /\ LET positions == draw_pos(mask)
           draw_n    == Len(positions)
       IN  \E drawn \in (IF draw_n # 0
                        THEN _draw_k(_fresh_deck_excluding(init), draw_n)
                        ELSE {<<>>}) :
              LET filled == fill(final, positions, drawn)
                  unit   == payout_for(evaluator(args.ruleset, filled))
              IN  /\ final' = filled
                  /\ total_pay' = FracAdd(total_pay, trial_pay(unit, FALSE))
                  /\ rng_draws' = rng_draws + consumes(draw_n)
                  /\ first_run' =
                         [first_run EXCEPT
                             !.total_pay = FracAdd(@, trial_pay(unit, TRUE)),
                             !.rng_draws = @ + consumes(draw_n)]
    /\ trial' = trial + 1
    /\ UNCHANGED <<evalVars, tok, deck, dealt, st, calls, rng_seed, args, pc, init, cache,
                   decision, mask, best_mask, best_ev, ev, frozenVars>>

\* _mc_ev_for_mask of both returns, and each strategy compares its EV with its best.
WeightedEvReturn ==
    /\ pc = "trial_loop"
    /\ trial = args.trials
    /\ LET ev_plain == mean(total_pay, args.trials)
           ev_hot   == mean(first_run.total_pay, args.trials)
       IN  /\ ev' = [m \in 0..mask |-> IF m = mask THEN ev_plain ELSE ev[m]]
           /\ IF improves(ev_plain, best_ev)
              THEN best_ev' = ev_plain /\ best_mask' = mask
              ELSE UNCHANGED <<best_ev, best_mask>>
           /\ first_run' =
                  [first_run EXCEPT
                      !.ev = [m \in 0..mask |-> IF m = mask THEN ev_hot ELSE @[m]],
                      !.best_ev = IF improves(ev_hot, @) THEN ev_hot ELSE @,
                      !.mask = IF improves(ev_hot, first_run.best_ev) THEN mask ELSE @]
    /\ mask' = mask + 1
    /\ pc' = "mask_loop"
    /\ UNCHANGED <<evalVars, tok, deck, dealt, st, calls, rng_seed, args, init, cache,
                   decision, trial, final, total_pay, rng_draws, frozenVars>>

\* Both strategies store their decision and return it.
WeightedReturn ==
    /\ pc = "mask_loop"
    /\ mask = 32
    /\ cache' = [k \in DOMAIN cache \cup {key(init)} |->
                    IF k = key(init) THEN best_mask ELSE cache[k]]
    /\ decision' = {best_mask}
    /\ first_run' = [first_run EXCEPT !.done = TRUE]
    /\ pc' = "idle"
    /\ UNCHANGED <<evalVars, tok, deck, dealt, st, calls, rng_seed, args, init, mask,
                   best_mask, best_ev, ev, trial, final, total_pay, rng_draws,
                   frozenVars>>

NextWeighted ==
    \/ WeightedCall \/ WeightedEvForMask \/ WeightedTrial \/ WeightedEvReturn
    \/ WeightedReturn

SpecWeighted == InitWeighted /\ [][NextWeighted]_vars

(***************************************************************************)
(* strategy.py, strategy_helpers.py and strategy_rules_riff.py.  A         *)
(* strategy returns a HoldDecision, the record of its mask, or raises.  A  *)
(* helper's None and its empty list, both false to every caller, are the   *)
(* empty list.                                                             *)
(***************************************************************************)
NameError == "NameError"

HoldDecision(m) == [mask |-> m]

hold_nothing(hand) == HoldDecision(0)

hold_all(hand) == HoldDecision(31)

\* counts[c.rank], after the loop over the cards
rank_count(hand, r) == Cardinality({i \in 1..Len(hand) : hand[i].rank = r})

\* mask |= (1 << i) for the first n cards whose rank is in rs
RECURSIVE mask_of_ranks(_, _, _)
mask_of_ranks(hand, rs, n) ==
    IF n = 0 THEN 0
    ELSE mask_of_ranks(hand, rs, n - 1) + (IF hand[n].rank \in rs THEN 2 ^ (n - 1) ELSE 0)

hold_any_pair_else_none(hand) ==
    LET ranks_paired == {r \in RANKS : rank_count(hand, r) >= 2}
    IN  IF ranks_paired = {} THEN HoldDecision(0)
        ELSE HoldDecision(mask_of_ranks(hand, ranks_paired, Len(hand)))

hold_job_pair_else_none(hand) ==
    LET high_pair_ranks == {r \in RANKS : rank_count(hand, r) >= 2 /\ r >= 11}
    IN  IF high_pair_ranks = {} THEN HoldDecision(0)
        ELSE HoldDecision(mask_of_ranks(hand, high_pair_ranks, Len(hand)))

indices_of_rank(hand, rank) == _idxs(hand, LAMBDA c : c.rank = rank)

indices_of_suit(hand, suit) == _idxs(hand, LAMBDA c : c.suit = suit)

\* sorted([r for r, n in counts.items() if n == 2], reverse=True)
pair_ranks(hand) == sorted_reverse(sorted_set({r \in RANKS : rank_count(hand, r) = 2}))

best_pair_indices(hand) ==
    IF pair_ranks(hand) = <<>> THEN <<>> ELSE indices_of_rank(hand, pair_ranks(hand)[1])

job_pair_indices(hand) ==
    LET high == SelectSeq(pair_ranks(hand), LAMBDA r : r >= 11)
    IN  IF high = <<>> THEN <<>> ELSE indices_of_rank(hand, high[1])

\* sorted(..., key=lambda kv: (-kv[1], kv[0]))[0]: the suit of the most cards, the
\* first in the order of the suits' letters among equals.
suits_sorted == <<"C", "D", "H", "S">>

n_to_flush(hand, n) ==
    LET size == [s \in {"C", "D", "H", "S"} |-> Len(indices_of_suit(hand, s))]
        suit == first_max(suits_sorted, size)
    IN  IF n <= 0 \/ hand = <<>> THEN <<>>
        ELSE IF size[suit] >= n THEN indices_of_suit(hand, suit) ELSE <<>>

n_to_royal(hand, n) ==
    LET by_suit == [s \in {"C", "D", "H", "S"} |->
                       _idxs(hand, LAMBDA c : c.rank \in ROYAL_RANKS /\ c.suit = s)]
        size    == [s \in {"C", "D", "H", "S"} |-> Len(by_suit[s])]
        suit    == first_max(suits_sorted, size)
    IN  IF n <= 0 THEN <<>>
        ELSE IF size[suit] >= n /\ size[suit] > 0 THEN by_suit[suit] ELSE <<>>

\* The categories riff_strategy holds whole.
riff_made == {"royal_flush", "straight_flush", "four_of_a_kind", "full_house", "flush",
              "straight", "three_of_a_kind"}

riff_strategy(hand) ==
    LET cat      == evaluate_hand(hand)
        pairs    == pair_ranks(hand)
        low_35   == SelectSeq(pairs, LAMBDA r : 2 <= r /\ r <= 4)
        in_pairs == {pairs[k] : k \in 1..Len(pairs)}
    IN  IF cat = ValueError THEN Raised("riff_strategy", hand, ValueError)
        ELSE IF cat \in riff_made THEN HoldDecision(31)
        ELSE IF n_to_royal(hand, 4) # <<>> THEN HoldDecision(mask_from_indices(n_to_royal(hand, 4)))
        ELSE IF n_to_royal(hand, 3) # <<>> THEN HoldDecision(mask_from_indices(n_to_royal(hand, 3)))
        ELSE IF n_to_flush(hand, 4) # <<>> THEN HoldDecision(mask_from_indices(n_to_flush(hand, 4)))
        ELSE IF 14 \in in_pairs THEN HoldDecision(mask_from_indices(indices_of_rank(hand, 14)))
        ELSE IF low_35 # <<>> THEN Raised("riff_strategy", hand, NameError)
        ELSE IF job_pair_indices(hand) # <<>>
             THEN HoldDecision(mask_from_indices(job_pair_indices(hand)))
        ELSE IF cat = "two_pair"
             THEN HoldDecision(mask_from_indices(_idxs(hand, LAMBDA c : c.rank \in in_pairs)))
        ELSE IF best_pair_indices(hand) # <<>>
             THEN HoldDecision(mask_from_indices(best_pair_indices(hand)))
        ELSE IF _idxs(hand, LAMBDA c : c.rank \in ROYAL_RANKS) # <<>>
             THEN HoldDecision(mask_from_indices(_idxs(hand, LAMBDA c : c.rank \in ROYAL_RANKS)))
        ELSE HoldDecision(0)

\* The hands the strategies are called on: every multiset of ranks, in one order of
\* the positions.
InitStrategy ==
    /\ \E r1 \in RANKS : \E r2 \in r1..14 : \E r3 \in r2..14 :
       \E r4 \in r3..14 : \E r5 \in r4..14 :
       \E j \in 0..5 : \E s \in SuitSet :
          LET h == MakeHand(<<r1, r2, r3, r4, r5>>, SuitPattern(j, s))
          IN  Distinct(h) /\ cards = Arrange(h, <<3, 1, 5, 2, 4>>)
    /\ ruleset = "none"
    /\ result = "none"
    /\ args = Args(FALSE, 0, "job", FALSE, 1, {})
    /\ McStart
    /\ NoHotRoll
    /\ NoDeck

CallHoldNothing ==
    /\ ruleset = "none"
    /\ ruleset' = "hold_nothing"
    /\ result' = hold_nothing(cards)
    /\ UNCHANGED <<cards, mcVars, tok, deck, dealt, st, calls>>

CallHoldAll ==
    /\ ruleset = "none"
    /\ ruleset' = "hold_all"
    /\ result' = hold_all(cards)
    /\ UNCHANGED <<cards, mcVars, tok, deck, dealt, st, calls>>

CallHoldAnyPair ==
    /\ ruleset = "none"
    /\ ruleset' = "hold_any_pair_else_none"
    /\ result' = hold_any_pair_else_none(cards)
    /\ UNCHANGED <<cards, mcVars, tok, deck, dealt, st, calls>>

CallHoldJobPair ==
    /\ ruleset = "none"
    /\ ruleset' = "hold_job_pair_else_none"
    /\ result' = hold_job_pair_else_none(cards)
    /\ UNCHANGED <<cards, mcVars, tok, deck, dealt, st, calls>>

CallRiff ==
    /\ ruleset = "none"
    /\ ruleset' = "riff_strategy"
    /\ result' = riff_strategy(cards)
    /\ UNCHANGED <<cards, mcVars, tok, deck, dealt, st, calls>>

CallJRiffStrategy ==
    /\ ruleset = "none"
    /\ ruleset' = "j_riff_strategy_deuces_wild_bonus"
    /\ result' = HoldDecision(j_riff_strategy_deuces_wild_bonus(cards))
    /\ UNCHANGED <<cards, mcVars, tok, deck, dealt, st, calls>>

NextStrategy ==
    \/ CallHoldNothing \/ CallHoldAll \/ CallHoldAnyPair \/ CallHoldJobPair
    \/ CallRiff \/ CallJRiffStrategy

SpecStrategy == InitStrategy /\ [][NextStrategy]_vars

(***************************************************************************)
(* hot_roll.py.  One hand's HotRollState: schedule_hot_roll_for_hand makes *)
(* it, and maybe_trigger_hot_roll is then called on it with the phases in  *)
(* any order.  rng.random() and rng.randrange(1, 7) return any value of    *)
(* their range.  calls is the record of the calls made on the state.       *)
(***************************************************************************)
Phase == {"deal", "draw"}

MaxCalls == 4

\* A state scheduled for a phase, whichever.
scheduled_for_any(s, phase) == s.scheduled_phase # None

\* if st.scheduled_phase != phase: return None
scheduled_for(s, phase) == s.scheduled_phase = phase

\* st = HotRollState()
InitHotRoll ==
    /\ cards = <<>>
    /\ ruleset = "none"
    /\ result = "none"
    /\ args = Args(FALSE, 0, "deuces_bonus", TRUE, 1, {})
    /\ McStart
    /\ NoHotRoll
    /\ NoDeck

schedule_hot_roll_for_hand ==
    /\ \/ st' = HotRollState(None, NoInt)
       \/ \E scheduled_phase \in Phase : st' = HotRollState(scheduled_phase, NoInt)
    /\ calls' = <<>>
    /\ result' = Returned("schedule_hot_roll_for_hand", 0, st')
    /\ UNCHANGED <<cards, ruleset, mcVars, tok, deck, dealt>>

maybe_trigger_hot_roll ==
    /\ Len(calls) < MaxCalls
    /\ \E phase \in Phase :
          IF st.multiplier # NoInt \/ ~scheduled_for(st, phase)
          THEN /\ calls' = Append(calls, [phase |-> phase, returned |-> NoInt])
               /\ result' = Returned("maybe_trigger_hot_roll", phase, NoInt)
               /\ UNCHANGED st
          ELSE \E d1 \in 1..6, d2 \in 1..6 :
                  /\ st' = [st EXCEPT !.multiplier = SomeInt(d1 + d2)]
                  /\ calls' = Append(calls, [phase |-> phase, returned |-> st'.multiplier])
                  /\ result' = Returned("maybe_trigger_hot_roll", phase, st'.multiplier)
    /\ UNCHANGED <<cards, ruleset, mcVars, tok, deck, dealt>>

NextHotRoll == schedule_hot_roll_for_hand \/ maybe_trigger_hot_roll

SpecHotRoll == InitHotRoll /\ [][NextHotRoll]_vars

(***************************************************************************)
(* sim.py.  simulate deals every hand from a Deck of the 52 cards made     *)
(* with the run's generator.  rng.shuffle leaves the 52 cards in one of    *)
(* the orders of shuffled_52.  strategy_fn is one of the repository's      *)
(* strategies or a callable of the caller that returns the HoldDecision of *)
(* one mask.  trial is h, the number of finished hands.                    *)
(***************************************************************************)
MaxSimHands == 2

\* [Card(rank, suit) for suit in ("C", "D", "H", "S") for rank in range(2, 15)]
_fresh_52 ==
    [i \in 1..52 |-> Card(2 + ((i - 1) % 13), <<"C", "D", "H", "S">>[((i - 1) \div 13) + 1])]

\* Three ways to take the 52 positions in turn: as they are, the four suits of each
\* rank in turn, and every fifth position.
Riffles ==
    {[i \in 1..52 |-> i],
     [i \in 1..52 |-> 13 * ((i - 1) % 4) + ((i - 1) \div 4) + 1],
     [i \in 1..52 |-> ((5 * (i - 1)) % 52) + 1]}

Cuts == {0, 7, 38}

\* The orders rng.shuffle leaves a 52-card list in: each riffle, cut at each of Cuts.
shuffled_52(xs) ==
    {[i \in 1..52 |-> xs[riffle[((i - 1 + cut) % 52) + 1]]] :
        riffle \in Riffles, cut \in Cuts}

\* The masks a callable of the caller may return: six bits, one more than the hand has.
CallableMasks == 0..63

\* strategy_fn(init): what each strategy can return or raise.
strategy_fn(fn, hand) ==
    IF fn.name = "hold_nothing" THEN hold_nothing(hand)
    ELSE IF fn.name = "hold_all" THEN hold_all(hand)
    ELSE IF fn.name = "hold_any_pair_else_none" THEN hold_any_pair_else_none(hand)
    ELSE IF fn.name = "hold_job_pair_else_none" THEN hold_job_pair_else_none(hand)
    ELSE IF fn.name = "riff_strategy" THEN riff_strategy(hand)
    ELSE IF fn.name = "j_riff_strategy_deuces_wild_bonus"
    THEN HoldDecision(j_riff_strategy_deuces_wild_bonus(hand))
    ELSE HoldDecision(fn.mask)

\* if mask & (1 << i)
sim_refills_held(m, i) == bit_set(m, i)

\* if not (mask & (1 << i))
sim_refills(m, i) == ~bit_set(m, i)

\* for i in range(5): if not (mask & (1 << i)): final[i] = deck.draw()
\* from position i on, with the deck and the cards handed out as they are then.
RECURSIVE refill(_, _, _, _, _)
refill(hand, m, i, pile, out) ==
    IF i >= 5 THEN [final |-> hand, deck |-> pile, dealt |-> out, raised |-> None]
    ELSE IF ~sim_refills(m, i) THEN refill(hand, m, i + 1, pile, out)
    ELSE IF pile = <<>>
    THEN [final |-> hand, deck |-> pile, dealt |-> out, raised |-> ValueError]
    ELSE refill([hand EXCEPT ![i + 1] = Head(pile)], m, i + 1, Tail(pile),
                Append(out, Head(pile)))

SimArgs(hands, bet_per_hand, fn, rules) ==
    [hands |-> hands, bet_per_hand |-> bet_per_hand, seed |-> seed_default,
     strategy_fn |-> fn, evaluator |-> rules]

\* rng = random.Random(seed); deck = Deck(rng=rng); the totals are zero.
InitSim ==
    /\ cards = <<>>
    /\ ruleset = "none"
    /\ result = Returned("__init__", 0, None)
    /\ \E hands \in 0..MaxSimHands :
          \/ \E name \in {"hold_any_pair_else_none", "hold_nothing", "hold_all",
                           "hold_job_pair_else_none", "riff_strategy"} :
                args = SimArgs(hands, 1, [name |-> name, mask |-> 0], "job")
          \/ args = SimArgs(hands, 1, [name |-> "j_riff_strategy_deuces_wild_bonus",
                                       mask |-> 0], "deuces_bonus")
          \/ \E m \in CallableMasks :
                args = SimArgs(hands, 1, [name |-> "callable", mask |-> m], "job")
    /\ McStart
    /\ NoHotRoll
    /\ tok = <<>>
    /\ deck \in shuffled_52(_fresh_52)
    /\ dealt = <<>>

\* deck.reset(); init = deck.deal(5)
SimDeal ==
    /\ pc = "idle"
    /\ trial < args.hands
    /\ \E pile \in shuffled_52(_fresh_52) :
          IF deal_raises(pile, 5)
          THEN /\ result' = Raised("deal", 5, ValueError)
               /\ pc' = "raised"
               /\ deck' = pile
               /\ dealt' = <<>>
               /\ UNCHANGED init
          ELSE /\ result' = Returned("deal", 5, slice_to(pile, 5))
               /\ pc' = "sim_dealt"
               /\ init' = slice_to(pile, 5)
               /\ deck' = slice_from(pile, 5)
               /\ dealt' = slice_to(pile, 5)
    /\ UNCHANGED <<cards, ruleset, args, cache, decision, mask, best_mask, best_ev, ev,
                   trial, final, total_pay, rng_draws, frozenVars, rng_seed, first_run,
                   tok, st, calls>>

\* decision = strategy_fn(init); mask = decision.mask
SimStrategy ==
    /\ pc = "sim_dealt"
    /\ ruleset' = args.strategy_fn.name
    /\ LET d == strategy_fn(args.strategy_fn, init)
       IN IF "mask" \in DOMAIN d
          THEN /\ decision' = d
               /\ mask' = d.mask
               /\ result' = Returned("strategy_fn", init, d)
               /\ pc' = "sim_decided"
          ELSE /\ result' = d
               /\ pc' = "raised"
               /\ UNCHANGED <<decision, mask>>
    /\ UNCHANGED <<cards, args, init, cache, best_mask, best_ev, ev, trial, final,
                   total_pay, rng_draws, frozenVars, rng_seed, first_run,
                   tok, deck, dealt, st, calls>>

\* final = init[:] and the loop over the five positions.
SimDraw ==
    /\ pc = "sim_decided"
    /\ LET r == refill(init, mask, 0, deck, dealt)
       IN  /\ final' = r.final
           /\ deck' = r.deck
           /\ dealt' = r.dealt
           /\ IF r.raised # None
              THEN result' = Raised("draw", 0, r.raised) /\ pc' = "raised"
              ELSE result' = Returned("draw", 0, r.final) /\ pc' = "sim_drawn"
    /\ UNCHANGED <<cards, ruleset, args, init, cache, decision, mask, best_mask, best_ev,
                   ev, trial, total_pay, rng_draws, frozenVars, rng_seed, first_run,
                   tok, st, calls>>

\* ev = evaluator(final); cat = ev.category; the counts and the payout of the hand.
SimScore ==
    /\ pc = "sim_drawn"
    /\ LET cat == evaluator(args.evaluator, final)
       IN  /\ cat_counts' = count_one(cat_counts, cat)
           /\ total_payout' = total_payout + payout_for(cat) * args.bet_per_hand
           /\ result' = Returned("evaluator", final, cat)
    /\ trial' = trial + 1
    /\ pc' = "idle"
    /\ UNCHANGED <<cards, ruleset, args, init, cache, decision, mask, best_mask, best_ev,
                   ev, final, total_pay, rng_draws, hold_mask, report, rng_seed,
                   first_run, tok, deck, dealt, st, calls>>

\* return SimResult(...)
SimReturn ==
    /\ pc = "idle"
    /\ trial = args.hands
    /\ LET total_bet == args.hands * args.bet_per_hand
           total_net == total_payout - total_bet
       IN  report' = [hands |-> args.hands, total_bet |-> total_bet,
                      total_payout |-> total_payout, total_net |-> total_net,
                      ev_per_hand |-> IF args.hands # 0 THEN Frac(total_net, args.hands)
                                      ELSE Zero,
                      return_pct |-> IF total_bet # 0 THEN Frac(total_payout, total_bet)
                                     ELSE Zero,
                      category_counts |-> cat_counts]
    /\ pc' = "done"
    /\ UNCHANGED <<evalVars, args, init, cache, decision, mask, best_mask, best_ev, ev,
                   trial, final, total_pay, rng_draws, hold_mask, total_payout, cat_counts,
                   rng_seed, first_run, tok, deck, dealt, st, calls>>

NextSim == SimDeal \/ SimStrategy \/ SimDraw \/ SimScore \/ SimReturn

SpecSim == InitSim /\ [][NextSim]_vars

(***************************************************************************)
(* Properties of the evaluators.  The hand is described here by its sets   *)
(* of ranks and suits, independently of the evaluators' own helpers.       *)
(***************************************************************************)
RankSetOf(h) == {h[i].rank : i \in 1..Len(h)}

RankCountOf(h, r) == Cardinality({i \in 1..Len(h) : h[i].rank = r})

OneSuit(h) == \A i, j \in 1..Len(h) : h[i].suit = h[j].suit

RunSets == {lo..(lo + 4) : lo \in 2..10} \cup {{2, 3, 4, 5, 14}}

StandardCategories ==
    {"royal_flush", "straight_flush", "four_aces_234", "four_low_ace", "four_aces",
     "four_234", "four_of_a_kind", "full_house", "flush", "straight",
     "three_of_a_kind", "two_pair", "jacks_or_better", "nothing"}

PairRanksOf(h) == {r \in RankSetOf(h) : RankCountOf(h, r) = 2}

StandardFourKind(h) ==
    LET q == CHOOSE r \in RankSetOf(h) : RankCountOf(h, r) = 4
        k == CHOOSE r \in RankSetOf(h) : r # q
    IN  IF q = 14 THEN (IF k \in {2, 3, 4} THEN "four_aces_234" ELSE "four_aces")
        ELSE IF q \in {2, 3, 4}
        THEN (IF k \in {14, 2, 3, 4} THEN "four_low_ace" ELSE "four_234")
        ELSE "four_of_a_kind"

StandardCategoryOf(h) ==
    IF OneSuit(h) /\ RankSetOf(h) = {10, 11, 12, 13, 14} THEN "royal_flush"
    ELSE IF OneSuit(h) /\ RankSetOf(h) \in RunSets THEN "straight_flush"
    ELSE IF \E r \in RankSetOf(h) : RankCountOf(h, r) = 4 THEN StandardFourKind(h)
    ELSE IF /\ \E r \in RankSetOf(h) : RankCountOf(h, r) = 3
            /\ PairRanksOf(h) # {}
    THEN "full_house"
    ELSE IF OneSuit(h) THEN "flush"
    ELSE IF RankSetOf(h) \in RunSets THEN "straight"
    ELSE IF \E r \in RankSetOf(h) : RankCountOf(h, r) = 3 THEN "three_of_a_kind"
    ELSE IF Cardinality(PairRanksOf(h)) = 2 THEN "two_pair"
    ELSE IF Cardinality(PairRanksOf(h)) = 1 /\ \A r \in PairRanksOf(h) : r >= 11
    THEN "jacks_or_better"
    ELSE "nothing"

FiveDistinct(h) == Len(h) = 5 /\ Distinct(h)

\* C1: for every hand of 5 distinct cards evaluate_hand returns the first matching
\* category of the standard precedence list (royal flush, straight flush, the
\* four-of-a-kind sub-categories by quad rank and kicker, full house, flush,
\* straight, three of a kind, two pair, jacks or better, nothing), and that is one
\* of the 14 standard categories.
C1_StandardPrecedence ==
    (ruleset = "job" /\ FiveDistinct(cards)) =>
        /\ result = StandardCategoryOf(cards)
        /\ result \in StandardCategories

C1_Witness ==
    /\ ruleset = "job"
    /\ FiveDistinct(cards)
    /\ RankCountOf(cards, 3) = 4
    /\ RankCountOf(cards, 14) = 1
    /\ result = "four_low_ace"

\* C2: for every hand of 5 distinct cards and every permutation of its positions,
\* evaluate_hand returns the same category for the permuted hand as for the
\* original: every exchange of two neighbouring cards leaves the category unchanged,
\* and every ordering is reached by such exchanges.
C2_PermutationInvariant ==
    [][(FiveDistinct(cards) /\ cards' # cards)
           => evaluate_hand(cards') = evaluate_hand(cards)]_vars

C2_Witness ==
    /\ ruleset = "job"
    /\ FiveDistinct(cards)
    /\ cards \notin ReorderSeeds
    /\ <<cards[1].rank, cards[2].rank, cards[3].rank, cards[4].rank, cards[5].rank>>
           = <<5, 14, 3, 2, 4>>
    /\ result = "straight_flush"

\* C3: each of the three evaluators fails with an error, and returns no category,
\* whenever the sequence it is given has a length other than 5.
C3_WrongSizeFails ==
    (ruleset # "none" /\ Len(cards) # 5) => result = ValueError

C3_Witness ==
    /\ ruleset = "deuces_bonus"
    /\ Len(cards) = 6
    /\ result = ValueError

(***************************************************************************)
(* Deuces Wild, in the words of the precedence list: w wilds, the natural  *)
(* cards, and what the wilds can be turned into.                           *)
(***************************************************************************)
WildsOf(h) == RankCountOf(h, 2)

NaturalIdx(h) == {i \in 1..Len(h) : h[i].rank # 2}

NaturalRanksOf(h) == {h[i].rank : i \in NaturalIdx(h)}

NaturalsOneSuit(h) == \A i, j \in NaturalIdx(h) : h[i].suit = h[j].suit

\* The wilds can be given ranks so that the five ranks are exactly the sequence:
\* the naturals have pairwise different ranks, all of them in the sequence.
Completable(h, seq) ==
    /\ \A i, j \in NaturalIdx(h) : i # j => h[i].rank # h[j].rank
    /\ NaturalRanksOf(h) \subseteq {seq[n] : n \in 1..Len(seq)}

SomeStraightCompletable(h) ==
    \E n \in 1..Len(STRAIGHT_SEQS) : Completable(h, STRAIGHT_SEQS[n])

KindReach(h, n) == \E r \in NaturalRanksOf(h) : RankCountOf(h, r) + WildsOf(h) >= n

\* The wilds can be given ranks so that the hand is three of rank a and two of rank b.
FullHouseRealisable(h) ==
    \E a \in 3..14 : \E b \in (3..14) \ {a} :
        /\ NaturalRanksOf(h) \subseteq {a, b}
        /\ RankCountOf(h, a) <= 3
        /\ RankCountOf(h, b) <= 2

RoyalRanksPresent(h) == Cardinality(NaturalRanksOf(h) \cap {10, 11, 12, 13, 14})

DeucesCategoryOf(h) ==
    LET w == WildsOf(h)
    IN  IF w = 0 /\ OneSuit(h) /\ RankSetOf(h) = {10, 11, 12, 13, 14}
        THEN "natural_royal_flush"
        ELSE IF w = 4 THEN "four_deuces"
        ELSE IF w > 0 /\ NaturalsOneSuit(h) /\ 5 - RoyalRanksPresent(h) <= w
        THEN "wild_royal_flush"
        ELSE IF w > 0 /\ KindReach(h, 5) THEN "five_of_a_kind"
        ELSE IF NaturalsOneSuit(h) /\ SomeStraightCompletable(h) THEN "straight_flush"
        ELSE IF KindReach(h, 4) THEN "four_of_a_kind"
        ELSE IF FullHouseRealisable(h) THEN "full_house"
        ELSE IF NaturalsOneSuit(h) THEN "flush"
        ELSE IF SomeStraightCompletable(h) THEN "straight"
        ELSE IF KindReach(h, 3) THEN "three_of_a_kind"
        ELSE "nothing"

\* C4: for every hand of 5 distinct cards with w deuces evaluate_deuces returns the
\* first matching category of the Deuces Wild precedence list: natural royal flush,
\* four deuces, wild royal flush, five of a kind, straight flush (one of the 10
\* sequences completable with the wilds), four of a kind, full house, flush,
\* straight, three of a kind, nothing.
C4_DeucesPrecedence ==
    (ruleset = "deuces" /\ FiveDistinct(cards)) => result = DeucesCategoryOf(cards)

C4_Witness ==
    /\ ruleset = "deuces"
    /\ FiveDistinct(cards)
    /\ WildsOf(cards) = 2
    /\ NaturalRanksOf(cards) = {14, 3, 5}
    /\ ~NaturalsOneSuit(cards)
    /\ result = "straight"

\* C5: evaluate_deuces_bonus returns four_deuces_with_ace exactly for 4 deuces and
\* an ace, four_deuces exactly for 4 deuces and another kicker; with 1..3 deuces,
\* no wild royal flush and all naturals of one rank r it returns five_aces for
\* r = 14, five_345 for r in 3..5 and five_6_to_k for r in 6..13; a wild royal
\* flush is decided before these tiers and a straight flush after them.
FiveKindTiers == {"five_aces", "five_345", "five_6_to_k"}

FiveKindTierOf(r) ==
    IF r = 14 THEN "five_aces" ELSE IF r \in {3, 4, 5} THEN "five_345" ELSE "five_6_to_k"

IsWildRoyal(h) ==
    WildsOf(h) > 0 /\ NaturalsOneSuit(h) /\ 5 - RoyalRanksPresent(h) <= WildsOf(h)

C5_BonusTopTiers ==
    (ruleset = "deuces_bonus" /\ FiveDistinct(cards)) =>
        LET w == WildsOf(cards)
        IN  /\ result = "four_deuces_with_ace" <=> (w = 4 /\ NaturalRanksOf(cards) = {14})
            /\ result = "four_deuces" <=> (w = 4 /\ NaturalRanksOf(cards) # {14})
            /\ \A r \in 3..14 :
                   (w \in 1..3 /\ ~IsWildRoyal(cards) /\ NaturalRanksOf(cards) = {r})
                       => result = FiveKindTierOf(r)
            /\ result \in FiveKindTiers =>
                   (w \in 1..3 /\ ~IsWildRoyal(cards) /\ Cardinality(NaturalRanksOf(cards)) = 1)
            /\ (w \in 1..3 /\ IsWildRoyal(cards)) => result = "wild_royal_flush"
            /\ result = "straight_flush" => ~KindReach(cards, 5)

C5_Witness ==
    /\ ruleset = "deuces_bonus"
    /\ FiveDistinct(cards)
    /\ WildsOf(cards) = 3
    /\ NaturalRanksOf(cards) = {13}
    /\ result = "five_6_to_k"

\* C6: mapping the bonus evaluator's result by four_deuces_with_ace -> four_deuces
\* and five_aces, five_345, five_6_to_k -> five_of_a_kind gives the category
\* evaluate_deuces returns for the same 5-card hand.
BonusToDeuces(cat) ==
    IF cat = "four_deuces_with_ace" THEN "four_deuces"
    ELSE IF cat \in FiveKindTiers THEN "five_of_a_kind"
    ELSE cat

C6_BonusRefinesDeuces ==
    (ruleset = "deuces_bonus" /\ Len(cards) = 5) =>
        BonusToDeuces(result) = evaluate_deuces(cards)

C6_Witness ==
    /\ ruleset = "deuces_bonus"
    /\ Len(cards) = 5
    /\ result = "five_345"
    /\ evaluate_deuces(cards) = "five_of_a_kind"

(***************************************************************************)
(* The search for the best mask.                                           *)
(***************************************************************************)
\* d is the least mask of e with the greatest EV: no mask has a greater EV, and every
\* smaller mask has a smaller one.
IsLeastArgmax(d, e) ==
    /\ d \in DOMAIN e
    /\ \A m \in DOMAIN e :
          /\ ~FracGt(e[m], e[d])
          /\ m < d => FracGt(e[d], e[m])

\* C7: the search evaluates the masks 0, 1, ..., 31 in this order (while it runs, the
\* masks evaluated so far are exactly those below the loop variable), and the mask it
\* returns is the least of the masks whose EV is the greatest, so mask 0 when all 32
\* EVs are equal.
C7_LeastArgmax ==
    [][/\ pc' \in {"mask_loop", "trial_loop"} => DOMAIN ev' = 0..(mask' - 1)
       /\ (pc = "mask_loop" /\ pc' = "idle") =>
             /\ DOMAIN ev = 0..31
             /\ \E d \in decision' : decision' = {d} /\ IsLeastArgmax(d, ev)]_vars

\* A search that returned mask 15 although mask 16 has the same positive EV.
C7_Witness ==
    /\ pc = "idle"
    /\ decision = {15}
    /\ DOMAIN ev = 0..31
    /\ FracGt(ev[15], Zero)
    /\ FracEq(ev[16], ev[15])

\* The paytable payout of evaluator(initial).
InitialPayout == Frac(payout_for(evaluator(args.ruleset, init)), 1)

\* The search is through its 32 masks.
SearchOver == pc = "mask_loop" /\ mask = 32

\* Every mask below 31 draws, once per trial; mask 31 adds no draw to them.
NoDrawAtMask31 ==
    (mask = 31 /\ pc = "trial_loop") \/ SearchOver => rng_draws = 31 * args.trials

HotRollWeight == IF args.hot_roll THEN Frac(10, 1) ELSE Frac(1, 1)

C9_ZeroTrials ==
    args.trials = 0 =>
        /\ pc # "raised"
        /\ \A m \in DOMAIN ev : FracEq(ev[m], Zero) /\ ev[m] # ZeroDivisionError
        /\ pc = "done" =>
              /\ FracEq(report.avg_payout, Zero)
              /\ report.avg_payout # ZeroDivisionError
              /\ DOMAIN report.category_counts = {}

\* A search without trials that returned, having given every mask an EV.
C9_Witness == args.trials = 0 /\ pc = "idle" /\ decision # {} /\ DOMAIN ev = 0..31

\* The hand of a finished trial under mask m: five different cards, the initial card
\* where the bit is set and a card that is not in the initial hand where it is not.
FreshDraw(m) ==
    /\ Len(final) = 5
    /\ \A i, j \in 1..5 : i # j => final[i] # final[j]
    /\ \A i \in 1..5 :
          IF bit_set(m, i - 1) THEN final[i] = init[i] ELSE final[i] \notin CardsOf(init)

\* C10: the hand every trial of the search and of frozen_ev_mc hands to the evaluator
\* has five distinct cards, the initial ones at the held positions and drawn ones,
\* none of them in the initial hand, at the others.
C10_DrawsAreFresh ==
    /\ (pc = "trial_loop" /\ trial >= 1) => FreshDraw(mask)
    /\ (pc = "frozen_loop" /\ trial >= 1) => FreshDraw(hold_mask)

\* A finished trial of the search that drew three cards.
C10_Witness == pc = "trial_loop" /\ trial >= 1 /\ Len(draw_pos(mask)) = 3

(***************************************************************************)
(* The report of frozen_ev_mc.                                             *)
(***************************************************************************)
\* The sum of f over the keys.
RECURSIVE SumOver(_, _)
SumOver(keys, f) ==
    IF keys = {} THEN 0
    ELSE LET k == CHOOSE x \in keys : TRUE
         IN  f[k] + SumOver(keys \ {k}, f)

\* What the counted categories pay for one coin.
PaidFor(counts) == [c \in DOMAIN counts |-> counts[c] * payout_for(c)]

JRiffCalled == ruleset = "j_riff" /\ FiveDistinct(cards)

\* The positions (1..5) of the deuces, and of the other cards.
DeucePositions == {i \in 1..Len(cards) : cards[i].rank = 2}

NaturalPositions == {i \in 1..Len(cards) : cards[i].rank # 2}

\* The mask that holds exactly the positions P.
MaskOfPositions(P) == SumOver(P, [i \in 1..5 |-> 2 ^ (i - 1)])

\* C16: whatever the hand of five distinct cards, the bit of every position that
\* holds a deuce is set in the mask returned.
C16_DeucesAlwaysHeld ==
    JRiffCalled =>
        \A m \in decision : \A i \in DeucePositions : (m \div (2 ^ (i - 1))) % 2 = 1

\* One deuce in the second position, held alone.
C16_Witness ==
    /\ JRiffCalled
    /\ DeucePositions = {2}
    /\ decision = {2}

\* C17: with 3 or 4 deuces the mask holds the deuces and nothing else, but for the
\* ace next to 4 deuces: 4 deuces and an ace give 31.
C17_ThreeAndFourDeuces ==
    (JRiffCalled /\ Cardinality(DeucePositions) \in {3, 4}) =>
        decision =
            {MaskOfPositions(
                DeucePositions \cup
                (IF Cardinality(DeucePositions) = 4
                 THEN {i \in 1..5 : cards[i].rank = 14} ELSE {}))}

\* Three deuces whose two naturals complete a wild royal flush, discarded all the same.
C17_Witness ==
    /\ JRiffCalled
    /\ Cardinality(DeucePositions) = 3
    /\ result = "wild_royal_flush"
    /\ decision = {MaskOfPositions(DeucePositions)}

\* The naturals of royal rank, and those of them in suit s.
RoyalPositions == {i \in NaturalPositions : cards[i].rank \in 10..14}

RoyalsOfSuit(s) == {i \in RoyalPositions : cards[i].suit = s}

\* The suits that hold the most naturals of royal rank.
BestRoyalSuits ==
    {s \in SuitSet :
        \A t \in SuitSet : Cardinality(RoyalsOfSuit(t)) <= Cardinality(RoyalsOfSuit(s))}

C19_SuitedRoyalPair ==
    (/\ JRiffCalled
     /\ Cardinality(DeucePositions) = 2
     /\ Cardinality(RoyalPositions) = 2
     /\ \E s \in SuitSet : RoyalsOfSuit(s) = RoyalPositions) =>
        decision = {MaskOfPositions(DeucePositions \cup RoyalPositions)}

\* The ranks of which the hand has exactly two naturals.
NaturalPairRanks ==
    {r \in 3..14 : Cardinality({i \in NaturalPositions : cards[i].rank = r}) = 2}

C15_DealAndDraw ==
    [][/\ (result'.op = "deal" /\ 0 <= result'.arg /\ result'.arg <= Len(deck)) =>
             /\ result'.raised = None
             /\ result'.out = SubSeq(deck, 1, result'.arg)
             /\ deck' = SubSeq(deck, result'.arg + 1, Len(deck))
       /\ (result'.op = "deal" /\ result'.arg > Len(deck)) =>
             /\ result'.raised = ValueError
             /\ deck' = deck
       /\ (result'.op = "draw" /\ deck = <<>>) =>
             /\ result'.raised = ValueError
             /\ deck' = deck]_vars

\* Two cards were dealt from a deck of three, which is a deck of one now.
C15_Witness ==
    /\ result.op = "deal"
    /\ result.arg = 2
    /\ result.raised = None
    /\ Len(result.out) = 2
    /\ Len(deck) = 1

(***************************************************************************)
(* C14.  A parser of hand text returns Card(10, x) for both "10x" and      *)
(* "Tx", whatever the suit letter x, Card(14/13/12/11, x) for "Ax", "Kx",  *)
(* "Qx" and "Jx", and Card(n, x) for the numeric tokens "2x" .. "9x".      *)
(***************************************************************************)
C14_BothSpellingsOfTen ==
    ruleset \in {"frozen.parse_card", "holding_strategy_check.parse_card"} =>
        \A x \in {"S", "H", "D", "C"} :
            /\ tok \in {<<"1", "0", x>>, <<"T", x>>} => result = Card(10, x)
            /\ \A c \in DOMAIN letter_rank : tok = <<c, x>> => result = Card(letter_rank[c], x)
            /\ \A n \in 2..9 : tok = <<digits[n + 1], x>> => result = Card(n, x)

(***************************************************************************)
(* C11.  In one strategy, a call with a hand that was passed before (the   *)
(* same cards in the same positions) returns the decision the first call   *)
(* stored, and runs no evaluation and no draw; an entry of the cache is    *)
(* never overwritten or removed; a hand is never answered from the entry   *)
(* of the same cards in other positions: it is searched, and its own mask  *)
(* is stored.                                                              *)
(***************************************************************************)
CardsInPositions(hand) == [i \in 1..Len(hand) |-> <<hand[i].rank, hand[i].suit>>]

C11_CacheHitsAndKeeps ==
    [][/\ \A k \in DOMAIN cache : k \in DOMAIN cache' /\ cache'[k] = cache[k]
       /\ (pc = "idle" /\ CardsInPositions(init') \in DOMAIN cache) =>
             /\ pc' = "idle"
             /\ decision' = {cache[CardsInPositions(init')]}
             /\ UNCHANGED <<cache, rng_draws, rng_seed, ev, mask, best_mask, best_ev, trial,
                            final, total_pay>>
       /\ (pc = "idle" /\ CardsInPositions(init') \notin DOMAIN cache) =>
             /\ pc' = "mask_loop"
             /\ mask' = 0
             /\ rng_draws' = 0
             /\ UNCHANGED <<cache, decision>>
       /\ (pc = "mask_loop" /\ pc' = "idle") =>
             /\ CardsInPositions(init) \notin DOMAIN cache
             /\ DOMAIN cache' = DOMAIN cache \cup {CardsInPositions(init)}
             /\ cache'[CardsInPositions(init)] = best_mask
             /\ decision' = {best_mask}]_vars

\* The ace-last hand is answered with its mask 15 from the cache after the search
\* of the ace-first hand, which left best_mask = 30.
C11_Witness ==
    /\ pc = "idle"
    /\ init = AceLast
    /\ DOMAIN cache = {CardsInPositions(AceLast), CardsInPositions(AceFirst)}
    /\ cache[CardsInPositions(AceLast)] = 15
    /\ cache[CardsInPositions(AceFirst)] = 30
    /\ decision = {15}
    /\ best_mask = 30

(***************************************************************************)
(* C12.  Two runs of the search with the same seed, trials, paytable and   *)
(* evaluator seed the generator of a hand alike, and end for it with the   *)
(* same EV of every mask and the same chosen mask.                         *)
(***************************************************************************)
C12_SameSeedSameEstimates ==
    (first_run.done /\ pc = "idle" /\ decision # {} /\ init = first_run.init) =>
        /\ rng_seed = first_run.rng_seed
        /\ ev = first_run.ev
        /\ decision = {first_run.mask}

(***************************************************************************)
(* C21.  A hand without a deuce that is three of a kind with two unpaired  *)
(* kickers is returned with exactly the three positions of the trips held. *)
(***************************************************************************)
PositionsOfRank(r) == {i \in 1..Len(cards) : cards[i].rank = r}

TripRanks == {r \in 3..14 : Cardinality(PositionsOfRank(r)) = 3}

C21_TripsOnly ==
    (JRiffCalled /\ DeucePositions = {} /\ result = "three_of_a_kind") =>
        \E r \in TripRanks : decision = {MaskOfPositions(PositionsOfRank(r))}

(***************************************************************************)
(* C22.  A hand without a deuce whose category is natural_royal_flush,     *)
(* straight_flush, four_of_a_kind, full_house, flush or straight is        *)
(* returned with mask 31.                                                  *)
(***************************************************************************)
MadeWithoutDeuce ==
    {"natural_royal_flush", "straight_flush", "four_of_a_kind", "full_house", "flush",
     "straight"}

C22_MadeHandsHeld ==
    (JRiffCalled /\ DeucePositions = {} /\ result \in MadeWithoutDeuce) => decision = {31}

(***************************************************************************)
(* C23.  A hand without a deuce, a made hand, trips or three royal-rank    *)
(* cards of one suit is returned with the two cards of one pair held: the  *)
(* aces if they are paired, else the lowest pair of rank 3..5, else the    *)
(* lowest pair of rank 6..13; and with mask 0 when it has no pair.         *)
(***************************************************************************)
PairRanks == {r \in 3..14 : Cardinality(PositionsOfRank(r)) = 2}

Lowest(rs) == CHOOSE r \in rs : \A q \in rs : r <= q

PairToKeep ==
    IF 14 \in PairRanks THEN 14
    ELSE IF PairRanks \cap 3..5 # {} THEN Lowest(PairRanks \cap 3..5)
    ELSE Lowest(PairRanks \cap 6..13)

C23_SinglePair ==
    (/\ JRiffCalled
     /\ DeucePositions = {}
     /\ result \notin MadeWithoutDeuce
     /\ TripRanks = {}
     /\ \A s \in SuitSet : Cardinality(RoyalsOfSuit(s)) < 3) =>
        decision = {IF PairRanks = {} THEN 0 ELSE MaskOfPositions(PositionsOfRank(PairToKeep))}

(***************************************************************************)
(* C24.  Every strategy, called on a hand of 5 distinct cards, returns a   *)
(* HoldDecision whose mask is in 0..31; none raises.                       *)
(***************************************************************************)
StrategyNames ==
    {"hold_nothing", "hold_all", "hold_any_pair_else_none", "hold_job_pair_else_none",
     "riff_strategy", "j_riff_strategy_deuces_wild_bonus"}

C24_StrategiesTotal ==
    (ruleset \in StrategyNames /\ FiveDistinct(cards)) =>
        /\ "mask" \in DOMAIN result
        /\ result.mask \in 0..31

(***************************************************************************)
(* C25.  evaluate_deuces and evaluate_deuces_bonus return full_house for a *)
(* hand of 5 distinct cards exactly when no higher category matches and    *)
(* the deuces can be given ranks that make the five cards three of one     *)
(* rank and two of another; that is only without a deuce and with ranks of *)
(* shape 3 + 2, or with one deuce and two natural pairs.                   *)
(***************************************************************************)
\* The ranks of the hand when its deuces take the ranks f gives them.
RanksUnder(h, f) == [i \in 1..Len(h) |-> IF h[i].rank = 2 THEN f[i] ELSE h[i].rank]

\* Five ranks, none a deuce: three of one and two of another.
IsThreeAndTwo(rs) ==
    LET S == {rs[i] : i \in 1..Len(rs)}
    IN  /\ Len(rs) = 5
        /\ 2 \notin S
        /\ Cardinality(S) = 2
        /\ \E a \in S : Cardinality({i \in 1..Len(rs) : rs[i] = a}) = 3

SomeAssignmentIsFullHouse(h) ==
    \E f \in [{i \in 1..Len(h) : h[i].rank = 2} -> 3..14] : IsThreeAndTwo(RanksUnder(h, f))

AboveFullHouse ==
    {"natural_royal_flush", "four_deuces", "wild_royal_flush", "five_of_a_kind",
     "straight_flush", "four_of_a_kind"}

NaturalPairsOf(h) == {r \in 3..14 : RankCountOf(h, r) = 2}

C25_FullHouseByAssignment ==
    (ruleset \in {"deuces", "deuces_bonus"} /\ FiveDistinct(cards)) =>
        /\ result = "full_house" <=>
              (DeucesCategoryOf(cards) \notin AboveFullHouse /\ SomeAssignmentIsFullHouse(cards))
        /\ result = "full_house" =>
              \/ WildsOf(cards) = 0 /\ IsThreeAndTwo(RanksUnder(cards, <<>>))
              \/ WildsOf(cards) = 1 /\ Cardinality(NaturalPairsOf(cards)) = 2

\* The bonus evaluator made a full house of two natural pairs and a deuce.
C25_Witness ==
    /\ ruleset = "deuces_bonus"
    /\ FiveDistinct(cards)
    /\ WildsOf(cards) = 1
    /\ NaturalPairsOf(cards) = {7, 9}
    /\ result = "full_house"

\* The calls of maybe_trigger_hot_roll that returned a multiplier.
Triggering == {i \in DOMAIN calls : calls[i].returned # NoInt}

\* C26: on one hand's HotRollState, whatever the phases of the calls of
\* maybe_trigger_hot_roll and their order, at most one call returns a
\* multiplier; that call's phase is the scheduled phase and its value is within
\* 2..12; no call returns one when no phase is scheduled; after the call that
\* set it every call returns None and the multiplier stays as it was set.
C26_OneTrigger ==
    /\ Cardinality(Triggering) <= 1
    /\ \A i \in Triggering :
          /\ calls[i].phase = st.scheduled_phase
          /\ calls[i].returned \subseteq 2..12
          /\ Cardinality(calls[i].returned) = 1
          /\ st.multiplier = calls[i].returned
          /\ \A j \in DOMAIN calls : j > i => calls[j].returned = NoInt
    /\ st.scheduled_phase = None => Triggering = {}
    /\ Triggering = {} => st.multiplier = NoInt

C26_Witness ==
    /\ Len(calls) = 4
    /\ st.scheduled_phase = "draw"
    /\ calls[1].phase = "deal"
    /\ calls[2].phase = "draw"
    /\ calls[2].returned = SomeInt(12)
    /\ calls[3].phase = "draw"
    /\ calls[4].phase = "deal"
    /\ st.multiplier = SomeInt(12)

\* C28: after any sequence of reset, shuffle, deal and draw on a deck whose
\* initial composition has no duplicate, the deck has no duplicate, the cards
\* handed out since the last reset and the cards of the deck are disjoint and
\* are together the initial composition, and a reset leaves the whole initial
\* composition in the deck.
C28_DeckPartition ==
    /\ Cardinality(CardsOf(deck)) = Len(deck)
    /\ CardsOf(dealt) \cap CardsOf(deck) = {}
    /\ CardsOf(dealt) \cup CardsOf(deck) = CardsOf(_initial_cards)
    /\ Len(dealt) + Len(deck) = Len(_initial_cards)
    /\ result.op \in {"reset", "__init__"} =>
          /\ CardsOf(deck) = CardsOf(_initial_cards)
          /\ Len(deck) = Len(_initial_cards)

C28_Witness ==
    /\ result.op = "draw"
    /\ result.raised = None
    /\ Len(dealt) = 3
    /\ Len(deck) = 2
    /\ \E i \in 1..3 : dealt[i] = _initial_cards[1]

\* The positions 0..4 whose bit is set in mask & 31, and how many positions up to i
\* have their bit unset.
HeldPositions(m) == {i \in 0..4 : (m \div (2 ^ i)) % 2 = 1}

UnsetUpTo(m, i) == Cardinality((0..i) \ HeldPositions(m))

\* The hand of simulate in progress, after the deal and after the draws.
SimHandDealt ==
    /\ pc \in {"sim_dealt", "sim_decided"} =>
          /\ Len(init) = 5
          /\ dealt = init
          /\ Len(deck) = 47
          /\ CardsOf(init) \cup CardsOf(deck) = CardsOf(_fresh_52)
    /\ pc = "raised" => result.op \notin {"deal", "draw"}

SimHandDrawn ==
    pc = "sim_drawn" =>
       /\ Len(dealt) = 5 + (5 - Cardinality(HeldPositions(mask)))
       /\ Len(dealt) <= 10
       /\ Len(deck) = 52 - Len(dealt)
       /\ SubSeq(dealt, 1, 5) = init
       /\ Len(final) = 5
       /\ \A i \in 0..4 :
             final[i + 1] = IF i \in HeldPositions(mask) THEN init[i + 1]
                            ELSE dealt[5 + UnsetUpTo(mask, i)]
       /\ Distinct(final)
       /\ CardsOf(dealt) \cup CardsOf(deck) = CardsOf(_fresh_52)

\* A step of simulate calls the strategy only on a hand just dealt, and a hand just
\* dealt is handed to the strategy before anything else happens to it.
SimOneStrategyCall ==
    /\ pc = "sim_dealt" => pc' \in {"sim_decided", "raised"}
    /\ pc' = "sim_decided" => pc = "sim_dealt" /\ result'.op = "strategy_fn"
    /\ pc = "sim_decided" => pc' \in {"sim_drawn", "raised"}
    /\ pc' = "sim_drawn" => pc = "sim_decided" /\ UNCHANGED <<decision, mask, init>>
    /\ pc' = "sim_dealt" => pc = "idle"

\* C27: in every hand of simulate the deck is reset to the 52 cards and five are
\* dealt, the strategy is called once, and exactly the positions whose mask bit is
\* unset are refilled, in ascending order, with the next cards of the deck: the hand
\* takes 5 + (5 - popcount(mask & 31)) <= 10 cards, deal and draw never raise, the
\* held positions keep the dealt cards and the final hand is five distinct cards.
C27_SimulatedHand == [](SimHandDealt /\ SimHandDrawn) /\ [][SimOneStrategyCall]_vars

C27_Witness ==
    /\ pc = "sim_drawn"
    /\ trial = 1
    /\ args.strategy_fn.name = "callable"
    /\ mask = 37
    /\ Len(dealt) = 8
    /\ final = <<init[1], dealt[6], init[3], dealt[7], dealt[8]>>

\* C29: in one process the mask of the Monte-Carlo strategy for a hand does not
\* depend on the calls made before: a strategy called on other hands first
\* returns, and caches, for the hand the mask that a fresh strategy with the same
\* seed, trials, paytable and evaluator returned for it, and it searches the hand
\* with a generator of the same seed.
C29_HistoryIndependent ==
    first_run.done =>
       /\ (pc = "idle" /\ init = first_run.init /\ decision # {}) =>
             decision = {first_run.mask}
       /\ key(first_run.init) \in DOMAIN cache =>
             cache[key(first_run.init)] = first_run.mask
       /\ (pc # "idle" /\ init = first_run.init) => rng_seed = first_run.rng_seed

C29_Witness ==
    /\ first_run.done
    /\ first_run.init = AceLast
    /\ first_run.mask = 15
    /\ pc = "idle"
    /\ init = AceLast
    /\ DOMAIN cache = {key(AceLast), key(AceFirst)}
    /\ cache[key(AceFirst)] # 30
    /\ decision = {15}

\* hot_roll_paytable_bet * (1 + 6 * p_per_hand)
HotRollFactor ==
    Frac(hot_roll_paytable_bet * (p_per_hand.den + 6 * p_per_hand.num), p_per_hand.den)

\* C30: with Hot Roll weighting the estimate of every mask is the estimate without
\* it times the positive constant hot_roll_paytable_bet * (1 + 6 * p_per_hand), and
\* the generator is asked for the same draws, so for the same seed and hand the
\* chosen mask is the same with and without the weighting.
C30_WeightingKeepsMask ==
    (pc \in {"mask_loop", "trial_loop"} \/ first_run.done) =>
       /\ FracGt(HotRollFactor, Zero)
       /\ DOMAIN first_run.ev = DOMAIN ev
       /\ \A m \in DOMAIN ev : FracEq(first_run.ev[m], FracMul(HotRollFactor, ev[m]))
       /\ first_run.rng_draws = rng_draws
       /\ first_run.rng_seed = rng_seed
       /\ first_run.mask = best_mask
       /\ first_run.done => decision = {first_run.mask}

C30_Witness ==
    /\ first_run.done
    /\ pc = "idle"
    /\ args.trials = 1
    /\ init = TenToKingClubs \o <<Card(14, "D")>>
    /\ decision = {15}
    /\ FracEq(ev[15], Frac(250, 1))
    /\ FracEq(first_run.ev[15], Frac(2500, 1))
    /\ FracEq(first_run.ev[0], Zero)
====
